---- MODULE Spec2Model ----
(***************************************************************************)
(* Model of the LPU timetable application.  The server: the rate-limited   *)
(* /api/refresh handler (api/refresh.js) and the /api/timetable read       *)
(* handler (api/timetable.js), running as interleaved async handlers over  *)
(* one shared cache record.  The browser page: TimetableApp, TimetableDB   *)
(* and NotificationManager.  The service worker's daily auto-refresh.      *)
(* Every `await` of a handler is a point where other handlers may run, so  *)
(* each awaited call is one action.                                        *)
(***************************************************************************)
EXTENDS Integers, Sequences, FiniteSets, TLC

(***************************************************************************)
(* Bounds of the model.                                                    *)
(***************************************************************************)
MaxReq == 2
MaxActive == 2
MaxTime == 720000
StartTime == 1000000
MaxSeqReq == 3
MaxEntries == 2
MaxCalls == 2
MaxClicks == 3
MaxChecks == 2
MaxStarts == 4
MaxReloads == 1
MaxDays == 3
MaxDelay == 1
MaxListLen == 11

\* Handler activations that can be in progress at the same time.
Slots == 1..MaxActive

\* Amounts (ms) by which the wall clock advances between handler steps.
TickSteps == {300000, 360000, 599000}

(***************************************************************************)
(* Program constants.                                                      *)
(***************************************************************************)
RATE_LIMIT_MINUTES == 10
MsPerMinute == 60000
MsPerSecond == 1000
MAX_RETRIES == 3
REFRESH_COOLDOWN == 10 * 60 * 1000

\* An optional value: <<>> is null/undefined, <<x>> is the value x.
None == <<>>
Some(x) == <<x>>
IsSome(o) == Len(o) = 1
Get(o) == o[1]

(***************************************************************************)
(* Timetable data.  A snapshot is a list of raw class items as the         *)
(* upstream portal returns them.                                           *)
(***************************************************************************)
Item(day, code, start, end, room, type, group) ==
    [Day |-> day, CourseCode |-> code, start |-> start, end |-> end,
     Building |-> "", Room |-> room, Type |-> type, Group |-> group]

ItemA == Item("Monday", "CSE101", 540, 600, "301", "Lecture", "All")
ItemARoom == Item("Monday", "CSE101", 540, 600, "305", "Lecture", "All")
ItemB == Item("Tuesday", "MTH166", 600, 660, "assignment", "Tutorial", "G1")

Snapshots == { <<ItemA>>, <<ItemARoom, ItemB>> }

\* More raw items of the same two classes: another time, another session
\* type, another time and room, a location text with a building, another
\* spelling of "assignment".
ItemATime == Item("Monday", "CSE101", 600, 660, "301", "Lecture", "All")
ItemAType == Item("Monday", "CSE101", 540, 600, "301", "Practical", "All")
ItemAMoved == Item("Monday", "CSE101", 600, 660, "305", "Lecture", "All")
ItemASplit == Item("Monday", "CSE101", 540, 600, "34-301", "Lecture", "G1")
ItemBUpper == Item("Tuesday", "MTH166", 600, 660, "Assignment", "Tutorial", "All")

DataItems ==
    {ItemA, ItemARoom, ItemATime, ItemAType, ItemAMoved, ItemASplit,
     ItemB, ItemBUpper}

\* Every snapshot of at most MaxEntries of these items with no key twice.
DataSnapshots ==
    UNION { {snap \in [1..n -> DataItems] :
               \A i, j \in 1..n :
                  i # j => <<snap[i].Day, snap[i].CourseCode>>
                             # <<snap[j].Day, snap[j].CourseCode>>}
            : n \in 0..MaxEntries }

\* The (day, courseCode) keys in day-then-courseCode order.
KeyOrder == << <<"Monday", "CSE101">>, <<"Tuesday", "MTH166">> >>

\* Date.prototype.toISOString and new Date(iso).getTime(): an ISO string
\* carries the instant at millisecond precision.
ToISOString(ms) == [iso |-> ms]
GetTime(s) == s.iso

\* String.prototype.toLowerCase on the location texts that occur.
ToLowerCase(str) ==
    IF str \in {"assignment", "Assignment", "ASSIGNMENT"} THEN "assignment"
    ELSE str

\* The location texts that hold a building/room pattern, split in two.
SplitLocation == [x \in {"34-301"} |-> <<"34", "301">>]

\* A text without the pattern clears the building.
processClassItemResetsBuilding(item) ==
    [item EXCEPT
       !.Building = IF item.Room \in DOMAIN SplitLocation
                      THEN SplitLocation[item.Room][1] ELSE "",
       !.Room = IF @ \in DOMAIN SplitLocation THEN SplitLocation[@][2]
                ELSE IF ToLowerCase(@) = "assignment" THEN "Online"
                ELSE @,
       !.Group = IF @ = "All" THEN "ALL" ELSE @]

\* TimetableManager.processClassItem: normalisation of a raw item into the
\* wire form: a location text with a building/room pattern is split into
\* building and room, a location "assignment" (in any case) shows as
\* "Online", group "All" as "ALL".
processClassItem(item) ==
    [item EXCEPT
       !.Building = IF item.Room \in DOMAIN SplitLocation
                      THEN SplitLocation[item.Room][1] ELSE @,
       !.Room = IF @ \in DOMAIN SplitLocation THEN SplitLocation[@][2]
                ELSE IF ToLowerCase(@) = "assignment" THEN "Online"
                ELSE @,
       !.Group = IF @ = "All" THEN "ALL" ELSE @]

\* data.map(item => processClassItem(item))
ProcessAll(data) == [i \in 1..Len(data) |-> processClassItem(data[i])]

(***************************************************************************)
(* ChangeDetector: diff(previous, next).                                   *)
(***************************************************************************)
HasKey(snap, k) ==
    \E i \in 1..Len(snap) : <<snap[i].Day, snap[i].CourseCode>> = k

EntryOf(snap, k) ==
    snap[CHOOSE i \in 1..Len(snap) :
            /\ <<snap[i].Day, snap[i].CourseCode>> = k
            /\ \A j \in 1..(i - 1) : <<snap[j].Day, snap[j].CourseCode>> # k]

Change(kind, k, prev, new) ==
    [kind |-> kind, day |-> k[1], courseCode |-> k[2],
     previous |-> prev, new |-> new]

\* The location is left out of the comparison.
ChangesForKeyIgnoresRoom(prev, next, k) ==
    IF HasKey(next, k) /\ ~HasKey(prev, k)
      THEN << Change("Added", k, "", EntryOf(next, k).Room) >>
    ELSE IF HasKey(prev, k) /\ ~HasKey(next, k)
      THEN << Change("Removed", k, EntryOf(prev, k).Room, "") >>
    ELSE IF HasKey(prev, k) /\ HasKey(next, k)
      THEN LET p == EntryOf(prev, k)
               n == EntryOf(next, k)
           IN  (IF <<p.start, p.end>> # <<n.start, n.end>>
                  THEN << Change("TimeChanged", k, "", "") >> ELSE <<>>)
               \o (IF p.Type # n.Type
                  THEN << Change("TypeChanged", k, p.Type, n.Type) >>
                  ELSE <<>>)
    ELSE <<>>

ChangesForKey(prev, next, k) ==
    IF HasKey(next, k) /\ ~HasKey(prev, k)
      THEN << Change("Added", k, "", EntryOf(next, k).Room) >>
    ELSE IF HasKey(prev, k) /\ ~HasKey(next, k)
      THEN << Change("Removed", k, EntryOf(prev, k).Room, "") >>
    ELSE IF HasKey(prev, k) /\ HasKey(next, k)
      THEN LET p == EntryOf(prev, k)
               n == EntryOf(next, k)
           IN  (IF <<p.start, p.end>> # <<n.start, n.end>>
                  THEN << Change("TimeChanged", k, "", "") >> ELSE <<>>)
               \o (IF <<p.Building, p.Room>> # <<n.Building, n.Room>>
                  THEN << Change("LocationChanged", k, p.Room, n.Room) >>
                  ELSE <<>>)
               \o (IF p.Type # n.Type
                  THEN << Change("TypeChanged", k, p.Type, n.Type) >>
                  ELSE <<>>)
    ELSE <<>>

RECURSIVE DiffKeys(_, _, _)
DiffKeys(prev, next, keys) ==
    IF keys = <<>> THEN <<>>
    ELSE ChangesForKey(prev, next, Head(keys)) \o DiffKeys(prev, next, Tail(keys))

\* previous is an optional snapshot; a null previous yields no changes.
Diff(previous, next) ==
    IF ~IsSome(previous) THEN <<>> ELSE DiffKeys(Get(previous), next, KeyOrder)

\* CacheManager.detectScheduleChangesWithPersistence(freshData): the diff of
\* the fresh data against the currently cached snapshot.
DetectResult(cacheNow, freshData) ==
    LET ch == Diff(IF IsSome(cacheNow) THEN Some(Get(cacheNow).data) ELSE None,
                   freshData)
    IN  [hasChanges |-> ch # <<>>, changes |-> ch]

(***************************************************************************)
(* Cache record written by CacheManager.saveTimetableCache.                *)
(***************************************************************************)
CacheRecord(data, cookies, t) ==
    [data |-> data, timestamp |-> Some(ToISOString(t)), lastUpdate |-> t,
     cookies |-> cookies]

SessionCookies == "session"

(***************************************************************************)
(* The rate-limit check of the refresh handler.                            *)
(***************************************************************************)
\* cacheData && (cacheData.lastUpdate || cacheData.timestamp)
HasUpdateTime(cacheData) ==
    /\ IsSome(cacheData)
    /\ (Get(cacheData).lastUpdate # 0 \/ IsSome(Get(cacheData).timestamp))

\* cacheData.lastUpdate || new Date(cacheData.timestamp).getTime()
LastUpdateMs(cacheData) ==
    IF Get(cacheData).lastUpdate # 0 THEN Get(cacheData).lastUpdate
    ELSE GetTime(Get(Get(cacheData).timestamp))

\* Unit slip: the elapsed time divided down to seconds, not minutes.
DiffMinutesInSeconds(cacheData, t) ==
    (t - LastUpdateMs(cacheData)) \div MsPerSecond

DiffMinutes(cacheData, t) == (t - LastUpdateMs(cacheData)) \div MsPerMinute

\* The window is still closed at exactly ten minutes.
IsRateLimitedInclusive(cacheData, t) ==
    /\ HasUpdateTime(cacheData)
    /\ DiffMinutes(cacheData, t) <= RATE_LIMIT_MINUTES

IsRateLimited(cacheData, t) ==
    /\ HasUpdateTime(cacheData)
    /\ DiffMinutes(cacheData, t) < RATE_LIMIT_MINUTES

RemainingMs(cacheData, t) ==
    (RATE_LIMIT_MINUTES * MsPerMinute) - (t - LastUpdateMs(cacheData))

(***************************************************************************)
(* Responses.                                                              *)
(***************************************************************************)
NoResp ==
    [status |-> 0, success |-> FALSE, rateLimited |-> FALSE, cached |-> FALSE,
     data |-> None, changes |-> None, classCount |-> 0,
     minutes |-> 0, seconds |-> 0, totalSeconds |-> 0,
     lastUpdated |-> None, nextRefreshAllowed |-> None, timestamp |-> None]

\* The seconds part is rounded to the nearest second, not cut off.
RateLimitedRespRounded(cacheData, t) ==
    LET remainingMs == RemainingMs(cacheData, t)
    IN  [NoResp EXCEPT
           !.status = 429, !.rateLimited = TRUE,
           !.minutes = remainingMs \div MsPerMinute,
           !.seconds = ((remainingMs % MsPerMinute) + 500) \div MsPerSecond,
           !.totalSeconds = remainingMs \div MsPerSecond,
           !.lastUpdated = Some(ToISOString(LastUpdateMs(cacheData))),
           !.nextRefreshAllowed =
               Some(ToISOString(LastUpdateMs(cacheData)
                                + (RATE_LIMIT_MINUTES * MsPerMinute)))]

RateLimitedResp(cacheData, t) ==
    LET remainingMs == RemainingMs(cacheData, t)
    IN  [NoResp EXCEPT
           !.status = 429, !.rateLimited = TRUE,
           !.minutes = remainingMs \div MsPerMinute,
           !.seconds = (remainingMs % MsPerMinute) \div MsPerSecond,
           !.totalSeconds = remainingMs \div MsPerSecond,
           !.lastUpdated = Some(ToISOString(LastUpdateMs(cacheData))),
           !.nextRefreshAllowed =
               Some(ToISOString(LastUpdateMs(cacheData)
                                + (RATE_LIMIT_MINUTES * MsPerMinute)))]

\* The change list is sent as it is, an empty list included.
RefreshOkRespRawChanges(freshData, ch, t) ==
    LET processedData == ProcessAll(freshData)
    IN  [NoResp EXCEPT
           !.status = 200, !.success = TRUE, !.cached = FALSE,
           !.data = Some(processedData), !.timestamp = Some(ToISOString(t)),
           !.classCount = Len(processedData),
           !.changes = Some(ch.changes)]

RefreshOkResp(freshData, ch, t) ==
    LET processedData == ProcessAll(freshData)
    IN  [NoResp EXCEPT
           !.status = 200, !.success = TRUE, !.cached = FALSE,
           !.data = Some(processedData), !.timestamp = Some(ToISOString(t)),
           !.classCount = Len(processedData),
           !.changes = IF ch.hasChanges THEN Some(ch.changes) ELSE None]

ErrorResp == [NoResp EXCEPT !.status = 500]

NotFoundResp == [NoResp EXCEPT !.status = 404]

\* The stored list is served as it is, without processClassItem.
TimetableOkRespUnprocessed(cacheData, t) ==
    LET processedData == Get(cacheData).data
    IN  [NoResp EXCEPT
           !.status = 200, !.success = TRUE, !.cached = TRUE,
           !.data = Some(processedData),
           !.timestamp =
               IF IsSome(Get(cacheData).timestamp)
                 THEN Get(cacheData).timestamp
               ELSE IF Get(cacheData).lastUpdate # 0
                 THEN Some(ToISOString(Get(cacheData).lastUpdate))
               ELSE Some(ToISOString(t)),
           !.classCount = Len(processedData)]

TimetableOkResp(cacheData, t) ==
    LET processedData == ProcessAll(Get(cacheData).data)
    IN  [NoResp EXCEPT
           !.status = 200, !.success = TRUE, !.cached = TRUE,
           !.data = Some(processedData),
           !.timestamp =
               IF IsSome(Get(cacheData).timestamp)
                 THEN Get(cacheData).timestamp
               ELSE IF Get(cacheData).lastUpdate # 0
                 THEN Some(ToISOString(Get(cacheData).lastUpdate))
               ELSE Some(ToISOString(t)),
           !.classCount = Len(processedData)]

\* An absent cache answered as a successful empty timetable.
TimetableRespEmptyOk(cacheData, t) ==
    IF ~IsSome(cacheData)
      THEN [NoResp EXCEPT !.status = 200, !.success = TRUE, !.cached = TRUE,
                          !.data = Some(<<>>), !.timestamp = Some(ToISOString(t))]
      ELSE TimetableOkResp(cacheData, t)

\* The whole /api/timetable handler as a function of the loaded cache.
TimetableResp(cacheData, t) ==
    IF ~IsSome(cacheData) THEN NotFoundResp ELSE TimetableOkResp(cacheData, t)

(***************************************************************************)
(* State.                                                                  *)
(***************************************************************************)
VARIABLES now, cache, pc, freshData, changes, hist, last, mon, getResp,
          app, notif, sw

\* now        Date.now()
\* cache      the persisted cache record (optional)
\* pc         position of each running refresh handler
\* freshData  the handler's freshData (optional)
\* changes    the handler's changes
\* hist       what each running refresh request has done so far; pre is the
\*            cache it found, kept while no other request overlaps it
\* last       what the refresh request answered last did, and its response;
\*            post is the cache it left, kept when no request overlapped it
\* mon        history of arrivals, fetches and 429 responses: chain holds
\*            while every request so far arrived with no other in progress
\*            and less than the cooldown after the one before; prevStart and
\*            lastTotal are kept along such a chain only
\* getResp    response of a GET /api/timetable answered since the last step
\*            of a refresh handler (NoResp when there was none)
\* app        the browser page: TimetableApp and the IndexedDB timetable store
\* notif      the browser page: NotificationManager, the IndexedDB
\*            notifications store and the local wall clock
\* sw         the service worker's daily auto-refresh

vars == <<now, cache, pc, freshData, changes, hist, last, mon, getResp,
          app, notif, sw>>

serverVars == <<cache, pc, freshData, changes, hist, last, mon, getResp>>
clientVars == <<app, notif, sw>>

NoChanges == [hasChanges |-> FALSE, changes |-> <<>>]

NoHist ==
    [id |-> 0, pre |-> None, overlapped |-> FALSE,
     fetched |-> FALSE, detected |-> FALSE, notified |-> FALSE, saved |-> FALSE,
     attempts |-> 0]

NoLast ==
    [id |-> 0, pre |-> None, post |-> None, overlapped |-> FALSE,
     fetched |-> FALSE, detected |-> FALSE, notified |-> FALSE, saved |-> FALSE,
     failedAt |-> "none", fresh |-> None, changes |-> NoChanges,
     resp |-> NoResp, prevTotal |-> None, attempts |-> 0]

NoMon ==
    [arrived |-> 0, chain |-> TRUE, prevStart |-> 0, lastTotal |-> None,
     lastFetchAt |-> 0]

Active(s) == pc[s] # "idle"
ActiveSet == {s \in Slots : Active(s)}
Fetching == {s \in Slots : pc[s] = "fetching"}

CooldownMs == RATE_LIMIT_MINUTES * MsPerMinute

(***************************************************************************)
(* The browser page after construction.                                    *)
(***************************************************************************)
Calls == 1..MaxCalls

NoCall == [pc |-> "idle", data |-> <<>>]

\* TimetableApp after its constructor and the synchronous part of
\* initializeApp: the loading screen is shown, loadTimetableData has not yet
\* read IndexedDB.
\* idb                the IndexedDB timetable store (<<>> when empty)
\* lpc                position of loadTimetableData
\* loading            the loading screen is visible
\* calls              position of each running manual refreshTimetable
\* errorModal         the error modal (with its retry button) is shown
\* toast              the rate-limit toast shown last
\* invoked, posts, gets   refreshTimetable invocations, POST /api/refresh and
\*                    GET /api/timetable requests issued so far
\* lastSuccess        when a manual refresh last completed successfully
\* objectStore        the records of the 'timetable' object store, by key
\* metadata           the 'lastUpdate' record of the 'metadata' store
\* saved              the list given to saveTimetable
\* loadResult         what loadTimetable resolved with since the last save
NoApp ==
    [idb |-> <<>>, lpc |-> "readingDB", loading |-> TRUE,
     timetableData |-> <<>>, lastManualRefresh |-> 0,
     calls |-> [c \in Calls |-> NoCall],
     errorModal |-> FALSE, toast |-> "none",
     invoked |-> 0, posts |-> 0, gets |-> 0, lastSuccess |-> 0,
     objectStore |-> {}, metadata |-> <<>>, saved |-> <<>>,
     loadResult |-> [done |-> FALSE, value |-> <<>>]]

\* A running checkForUpcomingClasses: its position, the pending list it got,
\* the index of the entry it is at, when it read the list, and whether
\* isEnabled() held when it started.
Checks == 1..MaxChecks

NoCheck ==
    [pc |-> "idle", pending |-> <<>>, i |-> 0, readAt |-> 0,
     enabledAtStart |-> FALSE]

\* NotificationManager after its constructor, with an empty notifications
\* store.
\* store              the IndexedDB notifications store
\* gen                saves of the notification schedule so far
\* enabled            localStorage 'notificationsEnabled' is not 'false'
\* permission         Notification.permission
\* sentNotifications  the manager's set of notification keys
\* checks             the running checkForUpcomingClasses invocations
\* delivered          the (day, classTime) keys with the number of class
\*                    notifications shown for each since the page was loaded
\* marked             the keys whose entry was marked notified in the store
\* started, reloads   checks started and page reloads so far
NoNotif ==
    [store |-> <<>>, gen |-> 0, enabled |-> TRUE, permission |-> "default",
     sentNotifications |-> {}, checks |-> [k \in Checks |-> NoCheck],
     delivered |-> <<>>, marked |-> {}, started |-> 0, reloads |-> 0]

\* The service worker after activation.
\* lastAutoRefresh  Date.now() at the last trigger, in minutes (0 for null)
\* clock            the service worker's Date.now(), in minutes
\* due              when the five-minute interval is due to fire next
\* clients          open window clients
\* inbox            AUTO_REFRESH messages posted to the page and not handled
\* shown            'LPU Timetable Updated' notifications shown so far
\* triggers         calls of triggerAutoRefresh so far
\* triggerDays      the IST dates on which triggerAutoRefresh was called
\* cache            the request URLs held in the worker's caches
\* lastFetch        the fetch event handled last and the response given
NoFetch ==
    [handled |-> FALSE, url |-> <<>>, method |-> "", outcome |-> "",
     network |-> FALSE, fromCache |-> FALSE, status |-> 0, body |-> ""]

NoSw ==
    [lastAutoRefresh |-> 0, clock |-> 0, due |-> 0, clients |-> 0,
     inbox |-> 0, shown |-> 0, triggers |-> 0, triggerDays |-> {},
     cache |-> {}, lastFetch |-> NoFetch]

ClientInit ==
    /\ app = NoApp
    /\ notif = NoNotif
    /\ sw = NoSw

Init ==
    /\ now = StartTime
    /\ cache = None
    /\ pc = [s \in Slots |-> "idle"]
    /\ freshData = [s \in Slots |-> None]
    /\ changes = [s \in Slots |-> NoChanges]
    /\ hist = [s \in Slots |-> NoHist]
    /\ last = NoLast
    /\ mon = NoMon
    /\ getResp = NoResp
    /\ ClientInit

\* A step of a refresh handler: an earlier GET response is no longer the latest
\* event.
ForgetGet == getResp' = NoResp

\* The handler of slot s sends its response and ends.
Finish(s, response, step, post) ==
    /\ pc' = [pc EXCEPT ![s] = "idle"]
    /\ freshData' = [freshData EXCEPT ![s] = None]
    /\ changes' = [changes EXCEPT ![s] = NoChanges]
    /\ hist' = [hist EXCEPT ![s] = NoHist]
    /\ last' = [id |-> hist[s].id, pre |-> hist[s].pre,
                post |-> IF hist[s].overlapped THEN None ELSE post,
                overlapped |-> hist[s].overlapped,
                fetched |-> hist[s].fetched, detected |-> hist[s].detected,
                notified |-> hist[s].notified, saved |-> hist[s].saved,
                failedAt |-> step, fresh |-> freshData[s],
                changes |-> changes[s], resp |-> response,
                prevTotal |-> mon.lastTotal,
                attempts |-> hist[s].attempts]
    /\ mon' = [mon EXCEPT !.lastTotal = IF mon.chain /\ response.status = 429
                                          THEN Some(response.totalSeconds)
                                          ELSE @]

(***************************************************************************)
(* The clock.                                                              *)
(***************************************************************************)
Tick ==
    /\ \E dt \in TickSteps :
         /\ now + dt <= StartTime + MaxTime
         /\ now' = now + dt
    /\ UNCHANGED <<cache, pc, freshData, changes, hist, last, mon, getResp, app, notif, sw>>

(***************************************************************************)
(* POST/GET /api/refresh: the handler of api/refresh.js.                   *)
(***************************************************************************)
\* A refresh request arrives; the handler runs up to its first await
\* (loadTimetableCache).  It takes the lowest free slot.
Arrive(s) ==
    /\ pc[s] = "idle"
    /\ \A q \in Slots : q < s => pc[q] # "idle"
    /\ pc' = [pc EXCEPT ![s] = "loading"]
    /\ hist' = [q \in Slots |->
                 IF q = s
                   THEN [NoHist EXCEPT
                           !.id = mon.arrived + 1,
                           !.pre = IF ActiveSet = {} THEN cache ELSE None,
                           !.overlapped = ActiveSet # {}]
                 ELSE IF Active(q)
                   THEN [hist[q] EXCEPT !.overlapped = TRUE, !.pre = None]
                 ELSE hist[q]]
    /\ LET chain == /\ mon.chain
                    /\ ActiveSet = {}
                    /\ (mon.arrived = 0 \/ now - mon.prevStart < CooldownMs)
       IN  mon' = [mon EXCEPT
                     !.arrived = @ + 1,
                     !.chain = chain,
                     !.prevStart = IF chain THEN now ELSE 0,
                     !.lastTotal = IF chain THEN @ ELSE None]
    /\ ForgetGet
    /\ UNCHANGED <<now, cache, freshData, changes, last, app, notif, sw>>

\* A refresh request arrives, from any caller at any moment.
Request(s) ==
    /\ mon.arrived < MaxReq
    /\ Arrive(s)

\* A refresh request arrives from a caller that waits for the answer to one
\* call before it issues the next.
RequestAlone(s) ==
    /\ mon.arrived < MaxSeqReq
    /\ ActiveSet = {}
    /\ Arrive(s)

\* loadTimetableCache resolves and the rate-limit check rejects with 429.
RateLimit(s) ==
    /\ pc[s] = "loading"
    /\ IsRateLimited(cache, now)
    /\ Finish(s, RateLimitedResp(cache, now), "none", cache)
    /\ ForgetGet
    /\ UNCHANGED <<now, cache, app, notif, sw>>

\* loadTimetableCache resolves, the rate-limit check passes and the handler
\* calls fetchFreshTimetableData: the upstream fetch is in flight.
Admit(s) ==
    /\ pc[s] = "loading"
    /\ ~IsRateLimited(cache, now)
    /\ pc' = [pc EXCEPT ![s] = "fetching"]
    /\ hist' = [hist EXCEPT ![s].fetched = TRUE, ![s].attempts = 1]
    /\ mon' = [mon EXCEPT !.lastFetchAt = now]
    /\ ForgetGet
    /\ UNCHANGED <<now, cache, freshData, changes, last, app, notif, sw>>

\* The fetch gives up one attempt early.
FetchTimeoutGivesUpEarly(s) ==
    /\ pc[s] = "fetching"
    /\ hist[s].attempts < MAX_RETRIES - 1
    /\ hist' = [hist EXCEPT ![s].attempts = @ + 1]
    /\ ForgetGet
    /\ UNCHANGED <<now, cache, pc, freshData, changes, last, mon, app, notif, sw>>

\* Inside fetchFreshTimetableData an attempt times out and, with attempts
\* left, the upstream request is made again.  (A timeout of the last attempt
\* makes the call throw: FetchFail.)
FetchTimeout(s) ==
    /\ pc[s] = "fetching"
    /\ hist[s].attempts < MAX_RETRIES
    /\ hist' = [hist EXCEPT ![s].attempts = @ + 1]
    /\ ForgetGet
    /\ UNCHANGED <<now, cache, pc, freshData, changes, last, mon, app, notif, sw>>

\* The failure path drops the cached record.
FetchFailClearsCache(s) ==
    /\ pc[s] = "fetching"
    /\ cache' = None
    /\ Finish(s, ErrorResp, "fetch", None)
    /\ ForgetGet
    /\ UNCHANGED <<now, app, notif, sw>>

\* fetchFreshTimetableData throws: the catch block answers 500.
FetchFail(s) ==
    /\ pc[s] = "fetching"
    /\ Finish(s, ErrorResp, "fetch", cache)
    /\ ForgetGet
    /\ UNCHANGED <<now, cache, app, notif, sw>>

\* fetchFreshTimetableData returns snapshot d; the handler calls
\* detectScheduleChangesWithPersistence(freshData).
FetchReturns(s, d) ==
    /\ pc[s] = "fetching"
    /\ freshData' = [freshData EXCEPT ![s] = Some(d)]
    /\ pc' = [pc EXCEPT ![s] = "detecting"]
    /\ hist' = [hist EXCEPT ![s].detected = TRUE]
    /\ ForgetGet
    /\ UNCHANGED <<now, cache, changes, last, mon, app, notif, sw>>

FetchDone(s) ==
    /\ pc[s] = "fetching"
    /\ \E d \in Snapshots : FetchReturns(s, d)

\* The fetch returns any snapshot the upstream portal may hold.
FetchAny(s) ==
    /\ pc[s] = "fetching"
    /\ \E d \in DataSnapshots : FetchReturns(s, d)

\* detectScheduleChangesWithPersistence throws: the catch block answers 500.
DetectFail(s) ==
    /\ pc[s] = "detecting"
    /\ Finish(s, ErrorResp, "detect", cache)
    /\ ForgetGet
    /\ UNCHANGED <<now, cache, app, notif, sw>>

\* The notification is dispatched whether or not there are changes.
DetectDoneAlwaysNotifies(s) ==
    /\ pc[s] = "detecting"
    /\ changes' = [changes EXCEPT
                     ![s] = DetectResult(cache, Get(freshData[s]))]
    /\ pc' = [pc EXCEPT ![s] = "notifying"]
    /\ hist' = [hist EXCEPT ![s].notified = TRUE]
    /\ ForgetGet
    /\ UNCHANGED <<now, cache, freshData, last, mon, app, notif, sw>>

\* Change detection returns.  With changes the handler calls
\* sendScheduleChangeNotifications, otherwise it goes on to saveTimetableCache.
DetectDone(s) ==
    /\ pc[s] = "detecting"
    /\ LET ch == DetectResult(cache, Get(freshData[s]))
       IN  /\ changes' = [changes EXCEPT ![s] = ch]
           /\ IF ch.hasChanges
                THEN /\ pc' = [pc EXCEPT ![s] = "notifying"]
                     /\ hist' = [hist EXCEPT ![s].notified = TRUE]
                ELSE /\ pc' = [pc EXCEPT ![s] = "saving"]
                     /\ hist' = hist
    /\ ForgetGet
    /\ UNCHANGED <<now, cache, freshData, last, mon, app, notif, sw>>

\* sendScheduleChangeNotifications rejects: the catch block answers 500.
NotifyFail(s) ==
    /\ pc[s] = "notifying"
    /\ Finish(s, ErrorResp, "notify", cache)
    /\ ForgetGet
    /\ UNCHANGED <<now, cache, app, notif, sw>>

\* sendScheduleChangeNotifications resolves; the handler calls
\* saveTimetableCache.
NotifyDone(s) ==
    /\ pc[s] = "notifying"
    /\ pc' = [pc EXCEPT ![s] = "saving"]
    /\ ForgetGet
    /\ UNCHANGED <<now, cache, freshData, changes, hist, last, mon, app, notif, sw>>

\* The save rejects after it has already replaced the record.
SaveFailPartialWrite(s) ==
    /\ pc[s] = "saving"
    /\ cache' = Some(CacheRecord(Get(freshData[s]), SessionCookies, now))
    /\ Finish(s, ErrorResp, "save", cache')
    /\ ForgetGet
    /\ UNCHANGED <<now, app, notif, sw>>

\* The save's rejection is swallowed and the handler answers 200.
SaveFailSwallowed(s) ==
    /\ pc[s] = "saving"
    /\ Finish(s, RefreshOkResp(Get(freshData[s]), changes[s], now), "save", cache)
    /\ ForgetGet
    /\ UNCHANGED <<now, cache, app, notif, sw>>

\* saveTimetableCache rejects: nothing is written, the catch block answers 500.
SaveFail(s) ==
    /\ pc[s] = "saving"
    /\ Finish(s, ErrorResp, "save", cache)
    /\ ForgetGet
    /\ UNCHANGED <<now, cache, app, notif, sw>>

\* The save appends the fresh entries to the entries already cached.
SaveDoneMerges(s) ==
    /\ pc[s] = "saving"
    /\ cache' = Some(CacheRecord(
                      IF IsSome(cache)
                        THEN Get(cache).data \o Get(freshData[s])
                        ELSE Get(freshData[s]),
                      SessionCookies, now))
    /\ pc' = [pc EXCEPT ![s] = "responding"]
    /\ hist' = [hist EXCEPT ![s].saved = TRUE]
    /\ ForgetGet
    /\ UNCHANGED <<now, freshData, changes, last, mon, app, notif, sw>>

\* The save is cut short: the record holds the new metadata but only the
\* entries written so far.
SaveDoneTornWrite(s) ==
    /\ pc[s] = "saving"
    /\ cache' = Some(CacheRecord(
                      SubSeq(Get(freshData[s]), 1, Len(Get(freshData[s])) - 1),
                      SessionCookies, now))
    /\ pc' = [pc EXCEPT ![s] = "responding"]
    /\ hist' = [hist EXCEPT ![s].saved = TRUE]
    /\ ForgetGet
    /\ UNCHANGED <<now, freshData, changes, last, mon, app, notif, sw>>

\* saveTimetableCache replaces the cache record with the fresh snapshot.
SaveDone(s) ==
    /\ pc[s] = "saving"
    /\ cache' = Some(CacheRecord(Get(freshData[s]), SessionCookies, now))
    /\ pc' = [pc EXCEPT ![s] = "responding"]
    /\ hist' = [hist EXCEPT ![s].saved = TRUE]
    /\ ForgetGet
    /\ UNCHANGED <<now, freshData, changes, last, mon, app, notif, sw>>

\* The handler resumes after the save and answers 200 with the fresh data.
Respond(s) ==
    /\ pc[s] = "responding"
    /\ Finish(s, RefreshOkResp(Get(freshData[s]), changes[s], now), "none", cache)
    /\ ForgetGet
    /\ UNCHANGED <<now, cache, app, notif, sw>>

(***************************************************************************)
(* GET /api/timetable: the handler of api/timetable.js.                    *)
(***************************************************************************)
\* The read path stamps the record with a new update time.
TimetableGetTouchesCache ==
    /\ getResp' = TimetableResp(cache, now)
    /\ cache' = IF IsSome(cache)
                  THEN Some([Get(cache) EXCEPT !.lastUpdate = now,
                                               !.timestamp = Some(ToISOString(now))])
                  ELSE cache
    /\ UNCHANGED <<now, pc, freshData, changes, hist, last, mon, app, notif, sw>>

\* The read waits until no upstream fetch is pending.
TimetableGetWaitsForRefresh ==
    /\ Fetching = {}
    /\ getResp' = TimetableResp(cache, now)
    /\ UNCHANGED <<now, cache, pc, freshData, changes, hist, last, mon, app, notif, sw>>

TimetableGet ==
    /\ getResp' = TimetableResp(cache, now)
    /\ UNCHANGED <<now, cache, pc, freshData, changes, hist, last, mon, app, notif, sw>>

Next ==
    \/ Tick
    \/ TimetableGet
    \/ \E s \in Slots :
         \/ Request(s)
         \/ RateLimit(s)
         \/ Admit(s)
         \/ FetchFail(s)
         \/ FetchDone(s)
         \/ DetectFail(s)
         \/ DetectDone(s)
         \/ NotifyFail(s)
         \/ NotifyDone(s)
         \/ SaveFail(s)
         \/ SaveDone(s)
         \/ Respond(s)

Spec == Init /\ [][Next]_vars

\* The refresh endpoint driven by one caller that issues its calls one after
\* the other.
NextSeq ==
    \/ Tick
    \/ \E s \in Slots :
         \/ RequestAlone(s)
         \/ RateLimit(s)
         \/ Admit(s)
         \/ FetchFail(s)
         \/ FetchDone(s)
         \/ DetectFail(s)
         \/ DetectDone(s)
         \/ NotifyFail(s)
         \/ NotifyDone(s)
         \/ SaveFail(s)
         \/ SaveDone(s)
         \/ Respond(s)

SpecSeq == Init /\ [][NextSeq]_vars

\* The same caller, with the attempts inside the upstream fetch made visible.
NextRetry ==
    \/ NextSeq
    \/ \E s \in Slots : FetchTimeout(s)

SpecRetry == Init /\ [][NextRetry]_vars

\* The rate-limit check on any stored update time and any reading of the
\* clock.  Date.now() is the wall clock of the instance that serves the
\* request: it is not tied to the clock that stamped the stored record, so the
\* stored time may lie before or after it.
RateOffsets ==
    {0, 1, 999, 1000, 59999, 60000, 300000, 599000, 599999, 600000, 660000}

InitRate ==
    /\ \E n \in RateOffsets : now = StartTime + n
    /\ \E m \in RateOffsets, d \in Snapshots :
         cache = Some(CacheRecord(d, SessionCookies, StartTime + m))
    /\ pc = [s \in Slots |-> "idle"]
    /\ freshData = [s \in Slots |-> None]
    /\ changes = [s \in Slots |-> NoChanges]
    /\ hist = [s \in Slots |-> NoHist]
    /\ last = NoLast
    /\ mon = NoMon
    /\ getResp = NoResp
    /\ ClientInit

NextRate ==
    \E s \in Slots :
        \/ Request(s)
        \/ RateLimit(s)
        \/ Admit(s)

SpecRate == InitRate /\ [][NextRate]_vars

\* The refresh and read paths on any cached snapshot and any fetched one.
\* The cache starts empty or with a record old enough for a refresh to be
\* admitted; one caller issues its calls one after the other.
InitData ==
    /\ now = StartTime
    /\ \/ cache = None
       \/ \E d \in DataSnapshots :
            cache = Some(CacheRecord(d, SessionCookies, StartTime - CooldownMs))
    /\ pc = [s \in Slots |-> "idle"]
    /\ freshData = [s \in Slots |-> None]
    /\ changes = [s \in Slots |-> NoChanges]
    /\ hist = [s \in Slots |-> NoHist]
    /\ last = NoLast
    /\ mon = NoMon
    /\ getResp = NoResp
    /\ ClientInit

NextData ==
    \/ TimetableGet
    \/ \E s \in Slots :
         \/ RequestAlone(s)
         \/ RateLimit(s)
         \/ Admit(s)
         \/ FetchAny(s)
         \/ DetectDone(s)
         \/ NotifyDone(s)
         \/ SaveDone(s)
         \/ Respond(s)

SpecData == InitData /\ [][NextData]_vars

(***************************************************************************)
(* The browser page: TimetableDB (IndexedDB) and TimetableApp.             *)
(***************************************************************************)
\* TimetableDB.saveNotificationSchedule(classData): the store is cleared and
\* gets one entry, not notified, for each class with a start time.  The
\* store's key generator (autoIncrement) goes on counting, so the entries of
\* every save have new ids.
ScheduleEntry(item, id) ==
    [id |-> id, day |-> item.Day, classTime |-> <<item.start, item.end>>,
     courseCode |-> item.CourseCode, startMinutes |-> item.start,
     notified |-> FALSE]

WithStart(classData) == SelectSeq(classData, LAMBDA item : item.start # 0)

saveNotificationSchedule(n, classData) ==
    [n EXCEPT
       !.store = [i \in 1..Len(WithStart(classData)) |->
                    ScheduleEntry(WithStart(classData)[i], <<n.gen + 1, i>>)],
       !.gen = @ + 1]

\* The wire form of the snapshots the API serves.
WireSnapshots == {ProcessAll(d) : d \in Snapshots}

\* loadTimetableData goes to the network without looking at IndexedDB.
loadFromIndexedDBNetworkFirst ==
    /\ app.lpc = "readingDB"
    /\ app' = [app EXCEPT !.lpc = "fetching", !.gets = @ + 1]
    /\ UNCHANGED <<now, notif, sw>>
    /\ UNCHANGED serverVars

\* loadTimetableData: db.loadTimetable() resolves.  With a non-empty store the
\* data is shown, the loading screen hidden and the notification schedule
\* saved; with an empty store GET /api/timetable is sent.
loadFromIndexedDB ==
    /\ app.lpc = "readingDB"
    /\ IF Len(app.idb) > 0
         THEN /\ app' = [app EXCEPT !.timetableData = app.idb,
                                    !.loading = FALSE, !.lpc = "idle"]
              /\ notif' = saveNotificationSchedule(notif, app.idb)
         ELSE /\ app' = [app EXCEPT !.lpc = "fetching", !.gets = @ + 1]
              /\ notif' = notif
    /\ UNCHANGED <<now, sw>>
    /\ UNCHANGED serverVars

\* loadTimetableData: GET /api/timetable is answered with 404, with data, or
\* fails; on failure the store is read again as a fallback.
loadFromApi ==
    /\ app.lpc = "fetching"
    /\ \/ /\ app' = [app EXCEPT !.lpc = "idle", !.loading = FALSE,
                                !.timetableData = <<>>]
          /\ notif' = notif
       \/ \E d \in WireSnapshots :
            /\ app' = [app EXCEPT !.lpc = "idle", !.loading = FALSE,
                                  !.timetableData = d, !.idb = d]
            /\ notif' = saveNotificationSchedule(notif, d)
       \/ /\ app' = [app EXCEPT !.lpc = "idle", !.loading = FALSE,
                                !.timetableData = app.idb,
                                !.errorModal = Len(app.idb) > 0]
          /\ notif' = notif
    /\ UNCHANGED <<now, sw>>
    /\ UNCHANGED serverVars

\* refreshTimetable(false) up to its first await: inside the cooldown it shows
\* the toast and returns, otherwise it sends POST /api/refresh.
refreshTimetableCall ==
    /\ app.invoked < MaxClicks
    /\ IF /\ now - app.lastManualRefresh < REFRESH_COOLDOWN
          /\ app.lastManualRefresh > 0
         THEN app' = [app EXCEPT !.invoked = @ + 1, !.toast = "cooldown"]
         ELSE \E c \in Calls :
                /\ app.calls[c].pc = "idle"
                /\ \A b \in Calls : b < c => app.calls[b].pc # "idle"
                /\ app' = [app EXCEPT !.invoked = @ + 1, !.posts = @ + 1,
                                      !.calls[c].pc = "posting"]

\* refreshTimetable(false) called from the page's own event handlers.
refreshTimetable ==
    /\ refreshTimetableCall
    /\ UNCHANGED <<now, notif, sw>>
    /\ UNCHANGED serverVars

\* A click on the refresh button.
RefreshClick ==
    /\ refreshTimetable

\* A click on the retry button of the error modal: the modal is hidden and
\* refreshTimetable is called.
RetryClick ==
    /\ app.errorModal
    /\ app.invoked < MaxClicks
    /\ IF /\ now - app.lastManualRefresh < REFRESH_COOLDOWN
          /\ app.lastManualRefresh > 0
         THEN app' = [app EXCEPT !.invoked = @ + 1, !.toast = "cooldown",
                                 !.errorModal = FALSE]
         ELSE \E c \in Calls :
                /\ app.calls[c].pc = "idle"
                /\ \A b \in Calls : b < c => app.calls[b].pc # "idle"
                /\ app' = [app EXCEPT !.invoked = @ + 1, !.posts = @ + 1,
                                      !.calls[c].pc = "posting",
                                      !.errorModal = FALSE]
    /\ UNCHANGED <<now, notif, sw>>
    /\ UNCHANGED serverVars

\* The page receives the service worker's AUTO_REFRESH message and calls
\* refreshTimetable(false).
AutoRefreshMessage ==
    /\ app.lpc = "idle"
    /\ refreshTimetable

\* A 429 answer also stamps the time of the last manual refresh.
RefreshAnsweredStampsOnLimit(c) ==
    /\ app.calls[c].pc = "posting"
    /\ \/ \E d \in WireSnapshots :
            app' = [app EXCEPT !.timetableData = d,
                               !.calls[c] = [pc |-> "storing", data |-> d]]
       \/ app' = [app EXCEPT !.calls[c] = NoCall, !.toast = "server",
                             !.lastManualRefresh = now]
       \/ app' = [app EXCEPT !.calls[c] = NoCall, !.errorModal = TRUE]
    /\ UNCHANGED <<now, notif, sw>>
    /\ UNCHANGED serverVars

\* POST /api/refresh is answered.  With data the page takes it over and
\* starts the IndexedDB writes; a 429 shows the toast; an error answer, a
\* network failure or an expired session shows the error modal.
RefreshAnswered(c) ==
    /\ app.calls[c].pc = "posting"
    /\ \/ \E d \in WireSnapshots :
            app' = [app EXCEPT !.timetableData = d,
                               !.calls[c] = [pc |-> "storing", data |-> d]]
       \/ app' = [app EXCEPT !.calls[c] = NoCall, !.toast = "server"]
       \/ app' = [app EXCEPT !.calls[c] = NoCall, !.errorModal = TRUE]
    /\ UNCHANGED <<now, notif, sw>>
    /\ UNCHANGED serverVars

\* saveTimetable and saveNotificationSchedule resolve: the manual refresh
\* completes and stamps lastManualRefresh.
RefreshStored(c) ==
    /\ app.calls[c].pc = "storing"
    /\ app' = [app EXCEPT !.calls[c] = NoCall,
                          !.idb = app.calls[c].data,
                          !.lastManualRefresh = now,
                          !.lastSuccess = now]
    /\ notif' = saveNotificationSchedule(notif, app.timetableData)
    /\ UNCHANGED <<now, sw>>
    /\ UNCHANGED serverVars

\* An IndexedDB write rejects: the catch block shows the error modal.
RefreshStoreFailed(c) ==
    /\ app.calls[c].pc = "storing"
    /\ app' = [app EXCEPT !.calls[c] = NoCall, !.errorModal = TRUE]
    /\ UNCHANGED <<now, notif, sw>>
    /\ UNCHANGED serverVars

\* The page starts with an empty IndexedDB store or with a timetable stored
\* by an earlier visit.
InitApp ==
    /\ now = StartTime
    /\ cache = None
    /\ pc = [s \in Slots |-> "idle"]
    /\ freshData = [s \in Slots |-> None]
    /\ changes = [s \in Slots |-> NoChanges]
    /\ hist = [s \in Slots |-> NoHist]
    /\ last = NoLast
    /\ mon = NoMon
    /\ getResp = NoResp
    /\ \E d \in WireSnapshots \cup {<<>>} : app = [NoApp EXCEPT !.idb = d]
    /\ notif = NoNotif
    /\ sw = NoSw

NextApp ==
    \/ Tick
    \/ loadFromIndexedDB
    \/ loadFromApi
    \/ RefreshClick
    \/ RetryClick
    \/ AutoRefreshMessage
    \/ \E c \in Calls :
         \/ RefreshAnswered(c)
         \/ RefreshStored(c)
         \/ RefreshStoreFailed(c)

SpecApp == InitApp /\ [][NextApp]_vars

(***************************************************************************)
(* The browser page: NotificationManager and the notifications store.      *)
(***************************************************************************)
\* Classes at the same time of day on two days.
ItemC == Item("Tuesday", "PHY110", 540, 600, "302", "Lecture", "G1")

\* The local wall clock: the page is opened on a Monday at 08:49.
PageOpenedMinute == 8 * 60 + 49
MinutesPerDay == 24 * 60

MinutesSinceOpened(t) == (t - StartTime) \div MsPerMinute

\* now.getHours() * 60 + now.getMinutes()
LocalMinutes(t) == (PageOpenedMinute + MinutesSinceOpened(t)) % MinutesPerDay

\* now.toLocaleDateString('en-US', { weekday: 'long' })
LocalDay(t) ==
    IF PageOpenedMinute + MinutesSinceOpened(t) < MinutesPerDay
      THEN "Monday" ELSE "Tuesday"

\* A class whose Day is a DD-MM-YYYY date (a Monday).
ItemD == Item("05-01-1970", "ECE220", 540, 600, "303", "Lecture", "G1")

\* The weekday of the DD-MM-YYYY dates that occur:
\* new Date(year, month - 1, dayNum).toLocaleDateString(..., weekday).
DateWeekday ==
    [d \in {"05-01-1970", "06-01-1970"} |->
       IF d = "05-01-1970" THEN "Monday" ELSE "Tuesday"]

\* The day filter of checkCurrentClass and updateStats: a Day in date form
\* is converted to its weekday before it is compared with today.
IsTodayClass(item, t) ==
    (IF item.Day \in DOMAIN DateWeekday THEN DateWeekday[item.Day]
     ELSE item.Day) = LocalDay(t)

\* `${notif.day}_${notif.classTime}`
notifKey(e) == <<e.day, e.classTime>>

\* The filter also returns the classes of other days.
IsPendingAnyDay(e, t) ==
    /\ ~e.notified
    /\ e.startMinutes - LocalMinutes(t) > 0
    /\ e.startMinutes - LocalMinutes(t) <= 10

\* The filter also returns the entries already marked notified.
IsPendingAlthoughNotified(e, t) ==
    /\ e.day = LocalDay(t)
    /\ e.startMinutes - LocalMinutes(t) > 0
    /\ e.startMinutes - LocalMinutes(t) <= 10

\* The filter of getPendingNotifications.
IsPending(e, t) ==
    /\ ~e.notified
    /\ e.day = LocalDay(t)
    /\ e.startMinutes - LocalMinutes(t) > 0
    /\ e.startMinutes - LocalMinutes(t) <= 10

\* TimetableDB.getPendingNotifications at time t.
getPendingNotifications(store, t) ==
    SelectSeq(store, LAMBDA e : IsPending(e, t))

\* TimetableDB.markNotificationSent(id): the entry with this id, when the
\* store still has it, is marked notified.
markNotificationSent(store, id) ==
    [j \in 1..Len(store) |->
       IF store[j].id = id THEN [store[j] EXCEPT !.notified = TRUE]
       ELSE store[j]]

HasId(store, id) == \E j \in 1..Len(store) : store[j].id = id

\* cleanupSentNotifications: only today's keys are kept.
cleanupSentNotifications(sent, t) == {key \in sent : key[1] = LocalDay(t)}

\* The loop of checkForUpcomingClasses: the first entry at or after index
\* from whose key is not in sentNotifications, or 0 when there is none.
NextUnsent(pending, from, sent) ==
    IF \E j \in from..Len(pending) : notifKey(pending[j]) \notin sent
      THEN CHOOSE j \in from..Len(pending) :
             /\ notifKey(pending[j]) \notin sent
             /\ \A h \in from..(j - 1) : notifKey(pending[h]) \in sent
      ELSE 0

isEnabled(n) == n.enabled /\ n.permission = "granted"

Count(delivered, key) ==
    IF key \in DOMAIN delivered THEN delivered[key] ELSE 0

FreeChecks(n) == {k \in Checks : n.checks[k].pc = "idle"}

\* checkForUpcomingClasses starts although notifications are switched off.
BeginCheckUnguarded(n, k) ==
    [n EXCEPT !.checks[k] = [NoCheck EXCEPT !.pc = "reading",
                                            !.enabledAtStart = isEnabled(n)],
              !.started = @ + 1]

\* checkForUpcomingClasses up to its first await, in slot k: it returns at
\* once unless notifications are enabled and permitted.
BeginCheck(n, k) ==
    IF isEnabled(n)
      THEN [n EXCEPT !.checks[k] = [NoCheck EXCEPT !.pc = "reading",
                                              !.enabledAtStart = isEnabled(n)],
                     !.started = @ + 1]
      ELSE [n EXCEPT !.started = @ + 1]

\* The one-minute interval of startNotificationCheck fires.
IntervalCheck ==
    /\ notif.permission = "granted"
    /\ notif.started < MaxStarts
    /\ \E k \in FreeChecks(notif) :
         /\ \A h \in FreeChecks(notif) : k <= h
         /\ notif' = BeginCheck(notif, k)
    /\ UNCHANGED <<now, app, sw>>
    /\ UNCHANGED serverVars

\* The service worker's CHECK_NOTIFICATIONS message arrives: the listener of
\* startNotificationCheck and the handler of setupServiceWorkerUpdates each
\* call checkForUpcomingClasses.
CheckNotificationsMessage ==
    /\ notif.permission = "granted"
    /\ app.lpc = "idle"
    /\ notif.started + 1 < MaxStarts
    /\ \E k, h \in FreeChecks(notif) :
         /\ k < h
         /\ \A g \in FreeChecks(notif) : g = k \/ h <= g
         /\ notif' = BeginCheck(BeginCheck(notif, k), h)
    /\ UNCHANGED <<now, app, sw>>
    /\ UNCHANGED serverVars

\* toggleNotifications: switched off when enabled, otherwise (with the
\* permission granted) switched on, which starts a check at once.
toggleNotifications ==
    /\ notif.permission = "granted"
    /\ IF isEnabled(notif)
         THEN notif' = [notif EXCEPT !.enabled = FALSE]
         ELSE /\ notif.started < MaxStarts
              /\ \E k \in FreeChecks(notif) :
                   /\ \A h \in FreeChecks(notif) : k <= h
                   /\ notif' = BeginCheck([notif EXCEPT !.enabled = TRUE], k)
    /\ UNCHANGED <<now, app, sw>>
    /\ UNCHANGED serverVars

\* The loop goes on from index from: the next entry not yet in
\* sentNotifications is sent, or the check ends with the clean-up.
ContinueCheck(n, k, pending, from) ==
    IF NextUnsent(pending, from, n.sentNotifications) = 0
      THEN [n EXCEPT !.checks[k] = NoCheck,
                     !.sentNotifications = cleanupSentNotifications(@, now)]
      ELSE [n EXCEPT !.checks[k].pc = "sending",
                     !.checks[k].pending = pending,
                     !.checks[k].i =
                        NextUnsent(pending, from, n.sentNotifications)]

\* getPendingNotifications resolves.
CheckRead(k) ==
    /\ notif.checks[k].pc = "reading"
    /\ notif' = ContinueCheck([notif EXCEPT !.checks[k].readAt = now], k,
                              getPendingNotifications(notif.store, now), 1)
    /\ UNCHANGED <<now, app, sw>>
    /\ UNCHANGED serverVars

Current(k) == notif.checks[k].pending[notif.checks[k].i]

\* sendClassNotification: registration.showNotification is called.
CheckSend(k) ==
    /\ notif.checks[k].pc = "sending"
    /\ notif' = [notif EXCEPT
                   !.checks[k].pc = "showing",
                   !.delivered =
                      [key \in DOMAIN @ \cup {notifKey(Current(k))} |->
                         IF key = notifKey(Current(k))
                           THEN Count(notif.delivered, key) + 1
                           ELSE @[key]]]
    /\ UNCHANGED <<now, app, sw>>
    /\ UNCHANGED serverVars

\* showNotification resolves: the key is added to sentNotifications and
\* markNotificationSent is called.
CheckShown(k) ==
    /\ notif.checks[k].pc = "showing"
    /\ notif' = [notif EXCEPT
                   !.checks[k].pc = "marking",
                   !.sentNotifications = @ \cup {notifKey(Current(k))}]
    /\ UNCHANGED <<now, app, sw>>
    /\ UNCHANGED serverVars

\* markNotificationSent resolves and the loop goes on.
CheckMarked(k) ==
    /\ notif.checks[k].pc = "marking"
    /\ notif' = ContinueCheck(
                   [notif EXCEPT
                      !.store = markNotificationSent(@, Current(k).id),
                      !.marked =
                         IF HasId(notif.store, Current(k).id)
                           THEN @ \cup {notifKey(Current(k))} ELSE @],
                   k, notif.checks[k].pending, notif.checks[k].i + 1)
    /\ UNCHANGED <<now, app, sw>>
    /\ UNCHANGED serverVars

\* The page is reloaded: a new TimetableApp and a new NotificationManager are
\* built over the same IndexedDB and localStorage, and init() starts the
\* first check.
Reload ==
    /\ notif.reloads < MaxReloads
    /\ notif.started < MaxStarts
    /\ app' = [NoApp EXCEPT !.idb = app.idb, !.invoked = app.invoked,
                            !.posts = app.posts, !.gets = app.gets]
    /\ notif' = BeginCheck([notif EXCEPT
                              !.sentNotifications = {},
                              !.checks = [k \in Checks |-> NoCheck],
                              !.delivered = <<>>,
                              !.reloads = @ + 1], 1)
    /\ UNCHANGED <<now, sw>>
    /\ UNCHANGED serverVars

\* The page has just been opened over a stored timetable; with the
\* permission granted init() has started the first check.
InitNotify ==
    /\ now = StartTime
    /\ cache = None
    /\ pc = [s \in Slots |-> "idle"]
    /\ freshData = [s \in Slots |-> None]
    /\ changes = [s \in Slots |-> NoChanges]
    /\ hist = [s \in Slots |-> NoHist]
    /\ last = NoLast
    /\ mon = NoMon
    /\ getResp = NoResp
    /\ \E d \in {<<ItemA, ItemC>>, <<ItemD, ItemC>>} :
         app = [NoApp EXCEPT !.idb = ProcessAll(d)]
    /\ \E p \in {"granted", "denied"} :
         notif = BeginCheck([NoNotif EXCEPT !.permission = p], 1)
    /\ sw = NoSw

NextNotify ==
    \/ Tick
    \/ loadFromIndexedDB
    \/ IntervalCheck
    \/ CheckNotificationsMessage
    \/ toggleNotifications
    \/ Reload
    \/ \E k \in Checks :
         \/ CheckRead(k)
         \/ CheckSend(k)
         \/ CheckShown(k)
         \/ CheckMarked(k)

SpecNotify == InitNotify /\ [][NextNotify]_vars

(***************************************************************************)
(* The browser page: start-up.  init() calls initializeApp, which shows    *)
(* the loading screen and then awaits db.init(), notificationManager       *)
(* .init() and loadTimetableData() in this order.                          *)
(***************************************************************************)
\* What Notification.requestPermission() can resolve to; a dismissed prompt
\* resolves to 'default'.
Permissions == {"default", "granted", "denied"}

\* NotificationManager.init after this.permission is known: with 'granted' it
\* calls startNotificationCheck, which runs the first check at once.
notificationManagerInit(n, p) ==
    IF p = "granted"
      THEN BeginCheck([n EXCEPT !.permission = p], 1)
      ELSE [n EXCEPT !.permission = p]

\* db.init() resolves and notificationManager.init() runs up to its first
\* await: with the permission still 'default' it asks the user and waits for
\* the answer, otherwise it returns and loadTimetableData is called.
DbInitDone ==
    /\ app.lpc = "openingDB"
    /\ IF notif.permission = "default"
         THEN /\ app' = [app EXCEPT !.lpc = "prompt"]
              /\ notif' = notif
         ELSE /\ app' = [app EXCEPT !.lpc = "readingDB"]
              /\ notif' = notificationManagerInit(notif, notif.permission)
    /\ UNCHANGED <<now, sw>>
    /\ UNCHANGED serverVars

\* db.init() rejects: the catch of initializeApp hides the loading screen and
\* the catch of init() shows the error modal.
DbInitFailed ==
    /\ app.lpc = "openingDB"
    /\ app' = [app EXCEPT !.lpc = "failed", !.loading = FALSE,
                          !.errorModal = TRUE]
    /\ UNCHANGED <<now, notif, sw>>
    /\ UNCHANGED serverVars

\* The user answers or dismisses the permission prompt:
\* Notification.requestPermission() resolves, init() returns and
\* initializeApp goes on to loadTimetableData.
PermissionAnswered ==
    /\ app.lpc = "prompt"
    /\ \E p \in Permissions :
         notif' = notificationManagerInit(notif, p)
    /\ app' = [app EXCEPT !.lpc = "readingDB"]
    /\ UNCHANGED <<now, sw>>
    /\ UNCHANGED serverVars

\* loadTimetableData: db.loadTimetable() rejects.  The catch hides the
\* loading screen and reads the store again; when that read fails too the
\* error reaches the catch of init(), which shows the error modal.
loadFromIndexedDBFailed ==
    /\ app.lpc = "readingDB"
    /\ \E again \in BOOLEAN :
         app' = [app EXCEPT !.lpc = "idle", !.loading = FALSE,
                            !.timetableData = IF again THEN <<>> ELSE app.idb,
                            !.errorModal = again \/ Len(app.idb) > 0]
    /\ UNCHANGED <<now, notif, sw>>
    /\ UNCHANGED serverVars

\* The page has just called initializeApp: the loading screen is shown and
\* db.init() is pending.  The browser holds the permission of earlier visits.
InitStart ==
    /\ now = StartTime
    /\ cache = None
    /\ pc = [s \in Slots |-> "idle"]
    /\ freshData = [s \in Slots |-> None]
    /\ changes = [s \in Slots |-> NoChanges]
    /\ hist = [s \in Slots |-> NoHist]
    /\ last = NoLast
    /\ mon = NoMon
    /\ getResp = NoResp
    /\ \E d \in {<<>>, ProcessAll(<<ItemA, ItemC>>)} :
         app = [NoApp EXCEPT !.idb = d, !.lpc = "openingDB"]
    /\ \E p \in Permissions : notif = [NoNotif EXCEPT !.permission = p]
    /\ sw = NoSw

NextStart ==
    \/ Tick
    \/ DbInitDone
    \/ DbInitFailed
    \/ PermissionAnswered
    \/ loadFromIndexedDB
    \/ loadFromIndexedDBFailed
    \/ loadFromApi
    \/ \E k \in Checks :
         \/ CheckRead(k)
         \/ CheckSend(k)
         \/ CheckShown(k)
         \/ CheckMarked(k)

\* The browser settles every pending IndexedDB request and fetch and runs
\* every continuation; nothing makes the user answer the permission prompt.
SpecStart ==
    /\ InitStart
    /\ [][NextStart]_vars
    /\ WF_vars(DbInitDone \/ DbInitFailed)
    /\ WF_vars(loadFromIndexedDB \/ loadFromIndexedDBFailed)
    /\ WF_vars(loadFromApi)
    /\ \A k \in Checks :
         WF_vars(CheckRead(k) \/ CheckSend(k) \/ CheckShown(k) \/ CheckMarked(k))

(***************************************************************************)
(* The service worker's daily auto-refresh.  Its clock counts minutes      *)
(* since the epoch (a Thursday).                                           *)
(***************************************************************************)
\* istOffset = 5.5 * 60 * 60 * 1000, in minutes
IstOffsetMinutes == 5 * 60 + 30

\* setInterval(..., 5 * 60000), in minutes
CheckEveryMinutes == 5

\* istTime = new Date(now.getTime() + istOffset)
IstTime(t) == t + IstOffsetMinutes

\* istTime.getUTCHours(), getUTCMinutes(), getUTCDay() (0 = Sunday)
GetUTCHours(t) == (t % MinutesPerDay) \div 60
GetUTCMinutes(t) == t % 60
GetUTCDay(t) == (t \div MinutesPerDay + 4) % 7

\* toISOString().split('T')[0]: the UTC calendar date, as days since the epoch
DateOf(t) == t \div MinutesPerDay

\* The service worker is activated on Saturday 3 January 1970 between 07:58
\* and 08:02 IST.
StartClock == 2 * MinutesPerDay + 7 * 60 + 58 - IstOffsetMinutes

\* lastRefreshDate
LastRefreshDate(s) ==
    IF s.lastAutoRefresh = 0 THEN None ELSE Some(DateOf(s.lastAutoRefresh))

\* triggerAutoRefresh: with a window client open the page is told to refresh,
\* otherwise the 'LPU Timetable Updated' notification is shown.
triggerAutoRefresh(s) ==
    IF s.clients > 0
      THEN [s EXCEPT !.inbox = @ + 1, !.triggers = @ + 1,
                     !.triggerDays = @ \cup {DateOf(IstTime(s.clock))}]
      ELSE [s EXCEPT !.shown = @ + 1, !.triggers = @ + 1,
                     !.triggerDays = @ \cup {DateOf(IstTime(s.clock))}]

\* The check does not look at the date of the last refresh.
checkAndAutoRefreshEveryCheck ==
    /\ sw.clock >= sw.due
    /\ IF /\ GetUTCDay(IstTime(sw.clock)) # 0
          /\ GetUTCHours(IstTime(sw.clock)) = 8
          /\ GetUTCMinutes(IstTime(sw.clock)) < 5
         THEN sw' = [triggerAutoRefresh(sw) EXCEPT
                       !.lastAutoRefresh = sw.clock,
                       !.due = @ + CheckEveryMinutes]
         ELSE sw' = [sw EXCEPT !.due = @ + CheckEveryMinutes]
    /\ UNCHANGED <<now, app, notif>>
    /\ UNCHANGED serverVars

\* The interval fires (or the worker has just been activated) and
\* checkAndAutoRefresh runs.
checkAndAutoRefresh ==
    /\ sw.clock >= sw.due
    /\ IF /\ GetUTCDay(IstTime(sw.clock)) # 0
          /\ GetUTCHours(IstTime(sw.clock)) = 8
          /\ GetUTCMinutes(IstTime(sw.clock)) < 5
          /\ LastRefreshDate(sw) # Some(DateOf(IstTime(sw.clock)))
         THEN sw' = [triggerAutoRefresh(sw) EXCEPT
                       !.lastAutoRefresh = sw.clock,
                       !.due = @ + CheckEveryMinutes]
         ELSE sw' = [sw EXCEPT !.due = @ + CheckEveryMinutes]
    /\ UNCHANGED <<now, app, notif>>
    /\ UNCHANGED serverVars

\* A minute passes; the interval fires at most MaxDelay minutes late.
SwTick ==
    /\ sw.clock < sw.due + MaxDelay
    /\ IstTime(sw.clock) % MinutesPerDay < 8 * 60 + 7
    /\ sw' = [sw EXCEPT !.clock = @ + 1]
    /\ UNCHANGED <<now, app, notif>>
    /\ UNCHANGED serverVars

\* 07:58 IST of the day after t.
NextMorning(t) ==
    (DateOf(IstTime(t)) + 1) * MinutesPerDay + 7 * 60 + 58 - IstOffsetMinutes

\* The first firing of the interval at or after t, when one was due at d.
NextDue(d, t) == t + ((d + 2 * MinutesPerDay - t) % CheckEveryMinutes)

\* The rest of the day passes: every check until 07:58 IST of the next day
\* falls outside the window and returns without effect.
SwNextMorning ==
    /\ IstTime(sw.clock) % MinutesPerDay >= 8 * 60 + 5
    /\ DateOf(IstTime(sw.clock)) - DateOf(IstTime(StartClock)) + 1 < MaxDays
    /\ sw' = [sw EXCEPT !.clock = NextMorning(sw.clock),
                        !.due = NextDue(sw.due, NextMorning(sw.clock))]
    /\ UNCHANGED <<now, app, notif>>
    /\ UNCHANGED serverVars

\* The page is opened: it loads and sets up its message handler.
ClientOpens ==
    /\ sw.clients = 0
    /\ sw' = [sw EXCEPT !.clients = 1]
    /\ app' = [NoApp EXCEPT !.lpc = "idle", !.loading = FALSE,
                            !.invoked = app.invoked, !.posts = app.posts]
    /\ UNCHANGED <<now, notif>>
    /\ UNCHANGED serverVars

\* The page is closed; messages it has not handled are lost.
ClientCloses ==
    /\ sw.clients = 1
    /\ sw' = [sw EXCEPT !.clients = 0, !.inbox = 0]
    /\ app' = [NoApp EXCEPT !.invoked = app.invoked, !.posts = app.posts]
    /\ UNCHANGED <<now, notif>>
    /\ UNCHANGED serverVars

\* The page handles an AUTO_REFRESH message: refreshTimetable(false).
AutoRefreshDelivered ==
    /\ sw.inbox > 0
    /\ app.lpc = "idle"
    /\ refreshTimetableCall
    /\ sw' = [sw EXCEPT !.inbox = @ - 1]
    /\ UNCHANGED <<now, notif>>
    /\ UNCHANGED serverVars

InitWorker ==
    /\ now = StartTime
    /\ cache = None
    /\ pc = [s \in Slots |-> "idle"]
    /\ freshData = [s \in Slots |-> None]
    /\ changes = [s \in Slots |-> NoChanges]
    /\ hist = [s \in Slots |-> NoHist]
    /\ last = NoLast
    /\ mon = NoMon
    /\ getResp = NoResp
    /\ app = NoApp
    /\ notif = NoNotif
    /\ \E p \in 0..(CheckEveryMinutes - 1) :
         sw = [NoSw EXCEPT !.clock = StartClock + p, !.due = StartClock + p]

NextWorker ==
    \/ SwTick
    \/ SwNextMorning
    \/ checkAndAutoRefresh
    \/ ClientOpens
    \/ ClientCloses
    \/ AutoRefreshDelivered

SpecWorker == InitWorker /\ [][NextWorker]_vars

(***************************************************************************)
(* TimetableDB: the 'timetable' object store, record by record.            *)
(***************************************************************************)
\* The class entries the lists are made of.
IdbItems == {processClassItem(ItemA), processClassItem(ItemB)}

\* Every non-empty list of at most MaxListLen entries.
IdbLists == UNION { [1..n -> IdbItems] : n \in 1..MaxListLen }

\* String(index): the decimal digits of a number.
RECURSIVE Digits(_)
Digits(n) ==
    IF n < 10 THEN <<n>> ELSE Append(Digits(n \div 10), n % 10)

\* `class_${index}`: the key of the record, as the digits after 'class_'.
ClassKey(index) == Digits(index)

\* The order of IndexedDB string keys: code unit by code unit, a proper
\* prefix first.
KeyLess(a, b) ==
    \/ /\ Len(a) < Len(b)
       /\ \A i \in 1..Len(a) : a[i] = b[i]
    \/ \E i \in 1..Len(a) :
         /\ i <= Len(b)
         /\ a[i] < b[i]
         /\ \A j \in 1..(i - 1) : a[j] = b[j]

\* store.getAll(): the records in ascending key order.
RECURSIVE getAll(_)
getAll(records) ==
    IF records = {} THEN <<>>
    ELSE LET first == CHOOSE r \in records :
                         \A q \in records \ {r} : KeyLess(r.id, q.id)
         IN  <<first>> \o getAll(records \ {first})

\* saveTimetable(data), called with the list in saved, completes: the store
\* is cleared and gets one record per entry, keyed by its index; the metadata
\* record gets the count.
DbSaveTimetable ==
    /\ ~IsSome(app.metadata)
    /\ app' = [app EXCEPT
                 !.objectStore =
                    {[id |-> ClassKey(i - 1), item |-> app.saved[i]] :
                       i \in 1..Len(app.saved)},
                 !.metadata = Some([classCount |-> Len(app.saved),
                                    timestamp |-> now]),
                 !.loadResult = [done |-> FALSE, value |-> None]]
    /\ UNCHANGED <<now, notif, sw>>
    /\ UNCHANGED serverVars

\* loadTimetable(): null for an empty store, otherwise the records without
\* their id and the count of the metadata record.
DbLoadTimetable ==
    /\ ~app.loadResult.done
    /\ app' = [app EXCEPT
                 !.loadResult =
                    [done |-> TRUE,
                     value |->
                       IF Len(getAll(app.objectStore)) > 0
                         THEN Some([data |->
                                      [i \in 1..Len(getAll(app.objectStore)) |->
                                         getAll(app.objectStore)[i].item],
                                    classCount |->
                                      IF IsSome(app.metadata)
                                        THEN Get(app.metadata).classCount
                                        ELSE Len(getAll(app.objectStore))])
                         ELSE None]]
    /\ UNCHANGED <<now, notif, sw>>
    /\ UNCHANGED serverVars

\* saveTimetable has been called with a list and its transaction is under
\* way.
InitDb ==
    /\ now = StartTime
    /\ cache = None
    /\ pc = [s \in Slots |-> "idle"]
    /\ freshData = [s \in Slots |-> None]
    /\ changes = [s \in Slots |-> NoChanges]
    /\ hist = [s \in Slots |-> NoHist]
    /\ last = NoLast
    /\ mon = NoMon
    /\ getResp = NoResp
    /\ \E data \in IdbLists : app = [NoApp EXCEPT !.saved = data]
    /\ notif = NoNotif
    /\ sw = NoSw

NextDb ==
    \/ DbSaveTimetable
    \/ DbLoadTimetable

SpecDb == InitDb /\ [][NextDb]_vars

(***************************************************************************)
(* The service worker's fetch handler.                                     *)
(***************************************************************************)
\* A request URL, by what the handler asks of it: html is
\* url.includes('.html'), root is url === origin + '/', api is
\* url.includes('/api/'), document is request.destination === 'document'.
Url(name, html, root, api, document) ==
    [name |-> name, html |-> html, root |-> root, api |-> api,
     document |-> document]

UrlRoot == Url("/", FALSE, TRUE, FALSE, TRUE)
UrlIndex == Url("/index.html", TRUE, FALSE, FALSE, TRUE)
UrlAppJs == Url("/assets/js/app.js", FALSE, FALSE, FALSE, FALSE)
UrlPage == Url("/about", FALSE, FALSE, FALSE, TRUE)
UrlLogo == Url("/assets/img/logo.svg", FALSE, FALSE, FALSE, FALSE)
UrlFont == Url("https://fonts.gstatic.com/inter.woff2", FALSE, FALSE, FALSE, FALSE)
UrlApiTimetable == Url("/api/timetable", FALSE, FALSE, TRUE, FALSE)
UrlApiHtml == Url("/api/export.html", TRUE, FALSE, TRUE, FALSE)
UrlApiJs == Url("/api/status.js", FALSE, FALSE, TRUE, FALSE)

Urls ==
    {UrlRoot, UrlIndex, UrlAppJs, UrlPage, UrlLogo, UrlFont,
     UrlApiTimetable, UrlApiHtml, UrlApiJs}

\* What install puts into the cache: the STATIC_FILES.
STATIC_FILES == {UrlRoot, UrlIndex, UrlAppJs}

\* What the network does with a request.
Outcomes == {"ok", "notFound", "failed"}

Response(network, fromCache, status, body) ==
    [network |-> network, fromCache |-> fromCache, status |-> status,
     body |-> body]

NetworkResponse(outcome) ==
    Response(TRUE, FALSE, IF outcome = "ok" THEN 200 ELSE 404, "network")

CachedResponse(network) == Response(network, TRUE, 200, "cached")

\* The promise given to respondWith rejects.
NetworkError == Response(TRUE, FALSE, 0, "error")

\* The synthetic answer of networkFirst to an API request when offline.
OfflineResponse == Response(TRUE, FALSE, 503, "Offline")

\* Successful answers are cached whatever the URL.
networkFirstCachesAll(held, u, outcome) ==
    IF outcome = "ok"
      THEN [cache |-> held \cup {u}, resp |-> NetworkResponse(outcome)]
    ELSE IF outcome = "notFound"
      THEN [cache |-> held, resp |-> NetworkResponse(outcome)]
    ELSE IF u.api
      THEN [cache |-> held, resp |-> OfflineResponse]
    ELSE IF u \in held
      THEN [cache |-> held, resp |-> CachedResponse(TRUE)]
    ELSE [cache |-> held, resp |-> NetworkError]

\* networkFirst(request): the new cache content and the response.
networkFirst(held, u, outcome) ==
    IF outcome = "ok"
      THEN [cache |-> IF ~u.api THEN held \cup {u} ELSE held,
            resp |-> NetworkResponse(outcome)]
    ELSE IF outcome = "notFound"
      THEN [cache |-> held, resp |-> NetworkResponse(outcome)]
    ELSE IF u.api
      THEN [cache |-> held, resp |-> OfflineResponse]
    ELSE IF u \in held
      THEN [cache |-> held, resp |-> CachedResponse(TRUE)]
    ELSE [cache |-> held, resp |-> NetworkError]

\* cacheFirst(request): the new cache content and the response.
cacheFirst(held, u, outcome) ==
    IF u \in held
      THEN [cache |-> held, resp |-> CachedResponse(FALSE)]
    ELSE IF outcome = "ok"
      THEN [cache |-> held \cup {u}, resp |-> NetworkResponse(outcome)]
    ELSE IF outcome = "notFound"
      THEN [cache |-> held, resp |-> NetworkResponse(outcome)]
    ELSE IF u.document /\ UrlIndex \in held
      THEN [cache |-> held, resp |-> CachedResponse(TRUE)]
    ELSE [cache |-> held, resp |-> NetworkError]

\* isStaticFile(url): STATIC_FILES holds '/', which every URL includes.
isStaticFile(u) == TRUE

\* The API branch is tried after the static-file branch.
RouteStaticFirst(held, u, outcome) ==
    IF u.html \/ u.root THEN networkFirst(held, u, outcome)
    ELSE IF isStaticFile(u) THEN cacheFirst(held, u, outcome)
    ELSE IF u.api THEN networkFirst(held, u, outcome)
    ELSE networkFirst(held, u, outcome)

\* The branches of the fetch listener for a GET request.
Route(held, u, outcome) ==
    IF u.html \/ u.root THEN networkFirst(held, u, outcome)
    ELSE IF u.api THEN networkFirst(held, u, outcome)
    ELSE IF isStaticFile(u) THEN cacheFirst(held, u, outcome)
    ELSE networkFirst(held, u, outcome)

\* A GET request reaches the fetch listener and is answered.
FetchGet ==
    \E u \in Urls, outcome \in Outcomes :
       /\ sw' = [sw EXCEPT
                   !.cache = Route(sw.cache, u, outcome).cache,
                   !.lastFetch =
                      [handled |-> TRUE, url |-> u, method |-> "GET",
                       outcome |-> outcome,
                       network |-> Route(sw.cache, u, outcome).resp.network,
                       fromCache |-> Route(sw.cache, u, outcome).resp.fromCache,
                       status |-> Route(sw.cache, u, outcome).resp.status,
                       body |-> Route(sw.cache, u, outcome).resp.body]]
       /\ UNCHANGED <<now, app, notif>>
       /\ UNCHANGED serverVars

\* A request with another method: the listener does not call respondWith and
\* the browser sends the request to the network itself.
FetchOther ==
    \E u \in Urls, outcome \in Outcomes :
       /\ sw' = [sw EXCEPT
                   !.lastFetch =
                      [handled |-> FALSE, url |-> u, method |-> "POST",
                       outcome |-> outcome, network |-> TRUE,
                       fromCache |-> FALSE,
                       status |-> IF outcome = "ok" THEN 200
                                  ELSE IF outcome = "notFound" THEN 404 ELSE 0,
                       body |-> IF outcome = "failed" THEN "error"
                                ELSE "network"]]
       /\ UNCHANGED <<now, app, notif>>
       /\ UNCHANGED serverVars

\* The worker is installed: the static files are in the cache.
InitFetch ==
    /\ now = StartTime
    /\ cache = None
    /\ pc = [s \in Slots |-> "idle"]
    /\ freshData = [s \in Slots |-> None]
    /\ changes = [s \in Slots |-> NoChanges]
    /\ hist = [s \in Slots |-> NoHist]
    /\ last = NoLast
    /\ mon = NoMon
    /\ getResp = NoResp
    /\ app = NoApp
    /\ notif = NoNotif
    /\ sw = [NoSw EXCEPT !.cache = STATIC_FILES]

NextFetch ==
    \/ FetchGet
    \/ FetchOther

SpecFetch == InitFetch /\ [][NextFetch]_vars

TypeOK ==
    /\ now >= StartTime
    /\ now <= StartTime + MaxTime
    /\ Len(cache) <= 1
    /\ \A s \in Slots : pc[s] \in {"idle", "loading", "fetching", "detecting",
                                   "notifying", "saving", "responding"}

(***************************************************************************)
(* Properties.                                                             *)
(***************************************************************************)
\* A step of the GET /api/timetable handler.
GetStep == getResp'.status # 0 /\ getResp' # getResp

\* C1: at most one upstream fetch (fetchFreshTimetableData) is in flight at
\* any time, for any interleaving of refresh requests.
AtMostOneFetchInFlight_C1 == Cardinality(Fetching) <= 1

\* C2: a refresh request whose rate-limit check sees a cache record updated
\* less than 10 minutes before now answers 429 with rateLimited:true and does
\* no upstream fetch, no change detection, no notification and no cache write.
RateLimitedNoEffect_C2 ==
    [][\A s \in Slots :
         (/\ pc[s] = "loading"
          /\ pc'[s] # "loading"
          /\ IsSome(cache)
          /\ now - Get(cache).lastUpdate < CooldownMs)
         => /\ pc'[s] = "idle"
            /\ last'.id = hist[s].id
            /\ last'.resp.status = 429
            /\ last'.resp.rateLimited
            /\ ~last'.resp.success
            /\ ~last'.fetched /\ ~last'.detected
            /\ ~last'.notified /\ ~last'.saved
            /\ cache' = cache
            /\ mon'.lastFetchAt = mon.lastFetchAt]_vars

\* A request was rejected as rate-limited against an existing record.
RateLimitedSeen_C2 ==
    /\ last.id # 0
    /\ last.resp.status = 429
    /\ IsSome(last.pre)
    /\ ~last.fetched

\* C3: over any sequence of refresh requests (after failures and overlapping
\* ones included) an upstream fetch starts at most once per 10-minute window.
OneFetchPerWindow_C3 ==
    [][\A s \in Slots :
         (pc[s] = "loading" /\ pc'[s] = "fetching")
         => (mon.lastFetchAt = 0 \/ now - mon.lastFetchAt >= CooldownMs)]_vars

\* C4: in a sequence of non-overlapping refresh calls spaced less than the
\* cooldown apart only the first contacts the upstream fetcher, every later
\* call answers 429, and totalSeconds does not grow from one 429 to the next.
SpacedCallsLimited_C4 ==
    mon.chain
    => /\ \A s \in Slots : hist[s].id > 1 => ~hist[s].fetched
       /\ last.id > 1
          => /\ last.resp.status = 429
             /\ ~last.fetched
             /\ IsSome(last.prevTotal)
                => last.resp.totalSeconds <= Get(last.prevTotal)

FetchFailureKeepsCache_C6 ==
    /\ [](last.failedAt = "fetch"
          => /\ last.resp.status = 500
             /\ ~last.resp.success
             /\ ~last.saved
             /\ ~last.overlapped => last.post = last.pre)
    /\ [][(/\ GetStep
           /\ last.failedAt = "fetch"
           /\ ~last.overlapped
           /\ ActiveSet = {})
          => getResp' = TimetableResp(last.pre, now)]_vars

\* A GET served the earlier snapshot right after a refresh whose fetch threw.
ServedAfterFetchFailure_C6 ==
    /\ last.failedAt = "fetch"
    /\ ~last.overlapped
    /\ IsSome(last.pre)
    /\ ActiveSet = {}
    /\ getResp.status = 200
    /\ getResp.data = Some(ProcessAll(Get(last.pre).data))

\* C7: a failure of notification dispatch does not fail the refresh: the new
\* snapshot is saved and the response is 200 success:true with the fresh data
\* and the change list.
NotifyFailureSwallowed_C7 ==
    last.failedAt = "notify"
    => /\ last.resp.status = 200
       /\ last.resp.success
       /\ last.saved
       /\ last.resp.data = Some(ProcessAll(Get(last.fresh)))
       /\ last.resp.changes = Some(last.changes.changes)

\* C8: when saving the cache fails after a successful fetch the refresh
\* answers 500 success:false; a 200 is only ever sent for saved data.
SaveFailureFails_C8 ==
    /\ last.failedAt = "save"
       => /\ last.resp.status = 500
          /\ ~last.resp.success
          /\ last.resp.data = None
    /\ last.resp.status = 200 => (last.saved /\ last.failedAt = "none")

\* A refresh fetched fresh data and then failed to save it.
SaveFailureSeen_C8 ==
    /\ last.failedAt = "save"
    /\ last.fetched
    /\ IsSome(last.fresh)

\* C9: GET /api/timetable with no cache record answers 404 success:false,
\* never success:true with an empty data list.
EmptyCacheNotFound_C9 ==
    [][(GetStep /\ cache = None)
       => /\ getResp'.status = 404
          /\ ~getResp'.success
          /\ getResp'.data = None]_vars

\* A GET was answered 404 over an empty cache.
NotFoundSeen_C9 ==
    /\ getResp.status = 404
    /\ cache = None

\* C10: GET /api/timetable starts no upstream fetch and leaves the cache
\* record and its update time alone, so the next refresh is admitted or
\* rate-limited (with the same remaining time) as if no read had happened.
ReadIsPure_C10 ==
    [][GetStep
       => /\ cache' = cache
          /\ pc' = pc
          /\ mon' = mon
          /\ IsRateLimited(cache', now') = IsRateLimited(cache, now)
          /\ IsRateLimited(cache, now)
             => RateLimitedResp(cache', now') = RateLimitedResp(cache, now)]_vars

\* A GET has read an existing record while a refresh request that is about
\* to be rate-limited awaits its cache load.
ReadBeforeRateCheck_C10 ==
    /\ getResp.status = 200
    /\ \E s \in Slots : pc[s] = "loading"
    /\ IsRateLimited(cache, now)

\* C11: while a refresh has its upstream fetch pending, GET /api/timetable
\* can be answered at once, and it answers with the snapshot that was cached
\* before that refresh (404 when there was none).
ReadDuringRefresh_C11 ==
    \A s \in Slots :
        pc[s] = "fetching"
        => /\ ENABLED TimetableGet
           /\ ~hist[s].overlapped
              => ENABLED (TimetableGet
                          /\ getResp' = TimetableResp(hist[s].pre, now))

\* A GET was answered with the earlier snapshot while a fetch was pending.
ReadServedDuringFetch_C11 ==
    \E s \in Slots :
        /\ pc[s] = "fetching"
        /\ ~hist[s].overlapped
        /\ IsSome(hist[s].pre)
        /\ getResp.status = 200
        /\ getResp.data = Some(ProcessAll(Get(hist[s].pre).data))

\* C12: a refresh is admitted whenever no cache record exists or at least ten
\* minutes have passed since the cached update time; five minutes after the
\* update it is answered 429 with remainingTime.totalSeconds = 300, eleven
\* minutes after it the upstream fetch is started.
AdmittedAfterCooldown_C12 ==
    [][\A s \in Slots :
         (pc[s] = "loading" /\ pc'[s] # "loading")
         => /\ (~IsSome(cache) \/ now - Get(cache).lastUpdate >= CooldownMs)
               => (pc'[s] = "fetching" /\ mon'.lastFetchAt = now)
            /\ (IsSome(cache) /\ now - Get(cache).lastUpdate = 5 * MsPerMinute)
               => /\ pc'[s] = "idle"
                  /\ last'.resp.status = 429
                  /\ last'.resp.totalSeconds = 300
                  /\ cache' = cache
            /\ (IsSome(cache) /\ now - Get(cache).lastUpdate = 11 * MsPerMinute)
               => pc'[s] = "fetching"]_vars

\* The scenario ran: the first call refreshed the empty cache, the call five
\* minutes later was answered 429 with 300 seconds left, and the call eleven
\* minutes after the first was admitted and answered 200 with its snapshot
\* saved.
ThreeCallScenario_C12 ==
    /\ last.id = 3
    /\ last.resp.status = 200
    /\ last.prevTotal = Some(300)
    /\ IsSome(last.pre)
    /\ Get(last.pre).lastUpdate = StartTime
    /\ mon.lastFetchAt = StartTime + 11 * MsPerMinute
    /\ IsSome(last.post)
    /\ Get(last.post).data = Get(last.fresh)

\* C13: the cache record changes only when a refresh saves, and that save
\* leaves exactly the snapshot this refresh fetched (the whole record is
\* replaced, nothing of the old one is kept); a refresh answered 200 that ran
\* alone leaves its own snapshot in the cache.
CacheReplacedWholesale_C13 ==
    /\ [][cache' # cache
          => \E s \in Slots :
               /\ pc[s] = "saving"
               /\ pc'[s] = "responding"
               /\ cache' = Some(CacheRecord(Get(freshData[s]),
                                            SessionCookies, now))]_vars
    /\ [](last.resp.status = 200 /\ ~last.overlapped
          => /\ last.saved
             /\ IsSome(last.post)
             /\ Get(last.post).data = Get(last.fresh))

\* A refresh answered 200 replaced an earlier, different snapshot.
SnapshotReplaced_C13 ==
    /\ last.resp.status = 200
    /\ ~last.overlapped
    /\ IsSome(last.pre)
    /\ Get(last.pre).data # Get(last.fresh)
    /\ Get(last.post).data = Get(last.fresh)
    /\ cache = last.post

\* C14: within one refresh the new snapshot is saved before the changes are
\* handed to the notification dispatcher: no request has dispatched a
\* notification while its snapshot is not yet saved.
SavedBeforeNotified_C14 ==
    \A s \in Slots : hist[s].notified => hist[s].saved

\* The fields of a 429 body agree with each other and stay in range.
RemainingTimeShape(resp) ==
    /\ resp.totalSeconds = resp.minutes * 60 + resp.seconds
    /\ 0 <= resp.seconds
    /\ resp.seconds < 60
    /\ 0 <= resp.totalSeconds
    /\ resp.totalSeconds <= 600
    /\ GetTime(Get(resp.nextRefreshAllowed))
         = GetTime(Get(resp.lastUpdated)) + 10 * MsPerMinute

\* C15 as stated: in every 429 response, for any stored update time and any
\* current time, totalSeconds = minutes*60 + seconds, 0 <= seconds < 60,
\* 0 <= totalSeconds <= 600 and nextRefreshAllowed = lastUpdated + 10 minutes.
RemainingTimeAnyClock_C15 ==
    last.resp.status = 429 => RemainingTimeShape(last.resp)

\* C15 amended: the same holds in every 429 response whose stored update time
\* is not later than the current time.
RemainingTimePastUpdate_C15 ==
    (last.resp.status = 429 /\ GetTime(Get(last.resp.lastUpdated)) <= now)
    => RemainingTimeShape(last.resp)

\* A 429 was answered one millisecond after the update: 9 min 59 s remain.
AlmostFullWait_C15 ==
    /\ last.resp.status = 429
    /\ GetTime(Get(last.resp.lastUpdated)) = now - 1
    /\ last.resp.minutes = 9
    /\ last.resp.seconds = 59
    /\ last.resp.totalSeconds = 599

\* diff(S, S) is empty for every snapshot S.
DiffSelfEmpty == \A S \in DataSnapshots : Diff(Some(S), S) = <<>>

\* C16: diff(S, S) = [] for any snapshot S: a refresh whose fetched data
\* equals the cached snapshot reports no changes (the response field
\* `changes` is null) and dispatches no notification.
NoSelfDiff_C16 ==
    /\ DiffSelfEmpty
    /\ \A s \in Slots :
         (hist[s].notified /\ ~hist[s].overlapped /\ IsSome(hist[s].pre))
         => Get(hist[s].pre).data # Get(freshData[s])
    /\ (/\ last.resp.status = 200
        /\ ~last.overlapped
        /\ IsSome(last.pre)
        /\ Get(last.pre).data = Get(last.fresh))
       => /\ ~last.changes.hasChanges
          /\ ~last.notified
          /\ last.resp.changes = None

\* A refresh fetched a non-empty snapshot equal to the cached one and was
\* answered 200 without a notification.
SameSnapshotRefreshed_C16 ==
    /\ last.resp.status = 200
    /\ ~last.overlapped
    /\ IsSome(last.pre)
    /\ Get(last.pre).data = Get(last.fresh)
    /\ Len(Get(last.fresh)) > 1
    /\ ~last.notified
    /\ last.resp.changes = None

\* diff(null, S) is empty for every snapshot S.
DiffNullEmpty == \A S \in DataSnapshots : Diff(None, S) = <<>>

\* C17: diff(null, S) = [] for any S: the first-ever successful refresh (no
\* cache record before it) reports no changes and dispatches no notification.
FirstLoadSilent_C17 ==
    /\ DiffNullEmpty
    /\ \A s \in Slots :
         (hist[s].id # 0 /\ ~hist[s].overlapped /\ ~IsSome(hist[s].pre))
         => ~hist[s].notified
    /\ (last.resp.status = 200 /\ ~last.overlapped /\ ~IsSome(last.pre))
       => /\ ~last.changes.hasChanges
          /\ ~last.notified
          /\ last.resp.changes = None

\* The first refresh populated the empty cache with a non-empty snapshot.
FirstLoadDone_C17 ==
    /\ last.resp.status = 200
    /\ last.id = 1
    /\ ~last.overlapped
    /\ ~IsSome(last.pre)
    /\ Len(Get(last.fresh)) > 1
    /\ IsSome(cache)
    /\ Get(cache).data = Get(last.fresh)
    /\ last.resp.changes = None

\* next is prev with the room of exactly one entry changed.
OneRoomChanged(prev, next) ==
    /\ Len(prev) = Len(next)
    /\ \E i \in 1..Len(prev) :
         /\ prev[i].Room # next[i].Room
         /\ next = [prev EXCEPT ![i].Room = next[i].Room]

\* The entry of next whose room differs from prev.
ChangedEntry(prev, next) ==
    CHOOSE i \in 1..Len(prev) : prev[i].Room # next[i].Room

\* C18: diff(S1, S2) where S2 differs from S1 only in one entry's room is
\* exactly one change, of kind LocationChanged, with the entry's day and
\* course code and the previous and the new room; the refresh hands it to the
\* notification dispatcher and returns it.
OneLocationChange_C18 ==
    (/\ last.resp.status = 200
     /\ ~last.overlapped
     /\ IsSome(last.pre)
     /\ OneRoomChanged(Get(last.pre).data, Get(last.fresh)))
    => LET prev == Get(last.pre).data
           next == Get(last.fresh)
           i == ChangedEntry(prev, next)
           expected == << [kind |-> "LocationChanged",
                           day |-> prev[i].Day,
                           courseCode |-> prev[i].CourseCode,
                           previous |-> prev[i].Room,
                           new |-> next[i].Room] >>
       IN  /\ last.changes.changes = expected
           /\ last.resp.changes = Some(expected)
           /\ last.notified

\* The Monday/CSE101 scenario ran: room 301 cached, room 305 fetched.
RoomScenario_C18 ==
    /\ last.resp.status = 200
    /\ IsSome(last.pre)
    /\ Get(last.pre).data = << ItemA >>
    /\ last.fresh = Some(<< ItemARoom >>)
    /\ last.resp.changes
         = Some(<< [kind |-> "LocationChanged", day |-> "Monday",
                    courseCode |-> "CSE101",
                    previous |-> "301", new |-> "305"] >>)

\* C19: normalisation is idempotent: applying processClassItem to data a
\* response already carries in normalised form (from the refresh path or the
\* read path) changes nothing.
NormalizeIdempotent_C19 ==
    /\ last.resp.status = 200
       => ProcessAll(Get(last.resp.data)) = Get(last.resp.data)
    /\ getResp.status = 200
       => ProcessAll(Get(getResp.data)) = Get(getResp.data)

\* A refresh and a read answered with data that normalisation had changed:
\* a location split into building and room, "All" shown as "ALL".
NormalizedServed_C19 ==
    /\ last.resp.status = 200
    /\ last.fresh = Some(<< ItemASplit, ItemBUpper >>)
    /\ Get(last.resp.data)[1].Building = "34"
    /\ Get(last.resp.data)[1].Room = "301"
    /\ Get(last.resp.data)[2].Room = "Online"
    /\ Get(last.resp.data)[2].Group = "ALL"
    /\ getResp.status = 200
    /\ getResp.data = last.resp.data

\* C20: with MAX_RETRIES = 3, a fetch whose attempts 1 and 2 time out is
\* tried again each time; when attempt 3 returns, the handler goes on with
\* that attempt's data, and a refresh answered 200 after it has saved exactly
\* that data.
ThirdAttemptSucceeds_C20 ==
    /\ \A s \in Slots :
         (pc[s] = "fetching" /\ hist[s].attempts < MAX_RETRIES)
         => ENABLED FetchTimeout(s)
    /\ \A s \in Slots :
         (pc[s] = "fetching" /\ hist[s].attempts = MAX_RETRIES)
         => ENABLED FetchDone(s)
    /\ (last.attempts = MAX_RETRIES /\ last.detected)
       => last.failedAt # "fetch"
    /\ (last.resp.status = 200 /\ last.attempts = MAX_RETRIES
        /\ ~last.overlapped)
       => /\ last.saved
          /\ IsSome(last.post)
          /\ Get(last.post).data = Get(last.fresh)

\* A refresh whose fetch returned on the third attempt was answered 200 and
\* the cache holds that attempt's data.
ThirdAttemptSaved_C20 ==
    /\ last.resp.status = 200
    /\ last.attempts = 3
    /\ ~last.overlapped
    /\ IsSome(cache)
    /\ Get(cache).data = Get(last.fresh)
    /\ last.resp.data = Some(ProcessAll(Get(last.fresh)))

\* A record is complete: a whole fetched snapshot with the metadata of one
\* save.
CompleteRecord(rec) ==
    \E d \in Snapshots : rec = CacheRecord(d, SessionCookies, rec.lastUpdate)

ChangesMatchReplacedSnapshot_C26 ==
    [][\A s \in Slots :
         (pc[s] = "saving" /\ pc'[s] = "responding")
         => changes[s].changes
              = Diff(IF IsSome(cache) THEN Some(Get(cache).data) ELSE None,
                     Get(freshData[s]))]_vars

\* C22: whenever the IndexedDB store holds a non-empty timetable,
\* loadTimetableData shows that data and hides the loading screen without
\* issuing a network request.
OfflineLoad_C22 ==
    [][(app.lpc = "readingDB" /\ app'.lpc # "readingDB" /\ Len(app.idb) > 0)
       => /\ app'.timetableData = app.idb
          /\ ~app'.loading
          /\ app'.lpc = "idle"
          /\ app'.gets = app.gets
          /\ app'.posts = app.posts]_vars

\* The page came up from a stored timetable: it is shown, the loading screen
\* is hidden and nothing was requested.
LoadedOffline_C22 ==
    /\ app.lpc = "idle"
    /\ ~app.loading
    /\ Len(app.idb) > 0
    /\ app.timetableData = app.idb
    /\ app.gets = 0
    /\ app.posts = 0
    /\ notif.gen = 1

OnePostInFlight_C30 ==
    Cardinality({c \in Calls : app.calls[c].pc = "posting"}) <= 1

\* Check k shows a class notification in this step.
Delivers(k) ==
    notif.checks[k].pc = "sending" /\ notif'.checks[k].pc = "showing"

\* No entry of the store with the key of e is marked notified.
NotMarked(store, e) ==
    \A j \in 1..Len(store) :
       notifKey(store[j]) = notifKey(e) => ~store[j].notified

DeliveredOnce_C27 ==
    \A key \in DOMAIN notif.delivered : notif.delivered[key] <= 1

\* C28: an entry whose key was marked sent is not returned again by
\* getPendingNotifications.
MarkedNeverPendingAgain_C28 ==
    [][\A k \in Checks :
         (notif.checks[k].pc = "reading" /\ notif'.checks[k].pc = "sending")
           => \A j \in 1..Len(notif'.checks[k].pending) :
                 notifKey(notif'.checks[k].pending[j]) \notin notif.marked]_vars

\* triggerAutoRefresh is called in this step.
Triggers == sw'.triggers # sw.triggers

\* C24: the daily auto-refresh is triggered only between 08:00 and 08:04 IST
\* on a day other than Sunday, and at most once on any IST calendar date.
DailyTriggerOnce_C24 ==
    [][Triggers
         => /\ sw'.triggers = sw.triggers + 1
            /\ IstTime(sw.clock) % MinutesPerDay \in (8 * 60)..(8 * 60 + 4)
            /\ GetUTCDay(IstTime(sw.clock)) \in 1..6
            /\ DateOf(IstTime(sw.clock)) \notin sw.triggerDays]_vars

\* The refresh was triggered on Saturday and on Monday, and on Monday a
\* further check inside the window has run after the trigger.
TriggeredTwoDays_C24 ==
    /\ sw.triggers = 2
    /\ Cardinality(sw.triggerDays) = 2
    /\ GetUTCDay(IstTime(sw.clock)) = 1
    /\ IstTime(sw.clock) % MinutesPerDay = 8 * 60 + 4
    /\ sw.due > sw.clock
    /\ sw.lastAutoRefresh < sw.clock

\* C25: every 'LPU Timetable Updated' notification follows a request to
\* /api/refresh made for that trigger.
NotifiedAfterRefresh_C25 ==
    sw.shown <= app.posts

\* C31: a manual refresh that ends in a 429, in a non-OK answer or in a
\* thrown error leaves the page's timetableData, the IndexedDB timetable
\* store, the notification schedule and lastManualRefresh as they were: while
\* no manual refresh has succeeded and none is running, the page still holds
\* what it loaded.
FailedRefreshKeepsState_C31 ==
    (/\ app.lpc = "idle"
     /\ \A c \in Calls : app.calls[c].pc = "idle"
     /\ app.lastSuccess = 0)
      => /\ app.timetableData = app.idb
         /\ app.lastManualRefresh = 0
         /\ notif.gen <= 1

\* C32: the service worker never puts the response for an '/api/' URL into a
\* cache and never answers an '/api/' GET from a cache: the request goes to
\* the network, and when the network fails the answer is the 503 'Offline'
\* response.
ApiNeverCached_C32 ==
    /\ \A u \in sw.cache : ~u.api
    /\ (sw.lastFetch.handled /\ sw.lastFetch.url.api)
         => /\ sw.lastFetch.network
            /\ ~sw.lastFetch.fromCache
            /\ sw.lastFetch.outcome = "failed"
                 => (sw.lastFetch.status = 503 /\ sw.lastFetch.body = "Offline")
            /\ sw.lastFetch.outcome # "failed"
                 => sw.lastFetch.body = "network"

\* An API GET whose URL also looks like a static file was answered offline,
\* after other responses had been cached.
ApiAnsweredOffline_C32 ==
    /\ sw.lastFetch.handled
    /\ sw.lastFetch.url = UrlApiJs
    /\ sw.lastFetch.outcome = "failed"
    /\ sw.lastFetch.status = 503
    /\ UrlPage \in sw.cache

\* C33: saveTimetable(d) followed by loadTimetable() gives back d, entry by
\* entry in the same order, with classCount the length of d.
IdbRoundTrip_C33 ==
    (app.loadResult.done /\ IsSome(app.metadata) /\ Len(app.saved) > 0)
      => /\ IsSome(app.loadResult.value)
         /\ Get(app.loadResult.value).data = app.saved
         /\ Get(app.loadResult.value).classCount = Len(app.saved)

\* C34: every class the page counts as one of today's classes is eligible
\* for a notification when it starts within the next 10 minutes (unless it
\* has been notified already), whether its Day is a weekday name or a date.
TodayClassNotifiable_C34 ==
    \A i \in 1..Len(app.timetableData) :
       (/\ app.lpc = "idle"
        /\ notif.gen > 0
        /\ IsTodayClass(app.timetableData[i], now)
        /\ app.timetableData[i].start - LocalMinutes(now) \in 1..10)
         => \E j \in 1..Len(notif.store) :
               /\ notif.store[j].courseCode = app.timetableData[i].CourseCode
               /\ notif.store[j].day = app.timetableData[i].Day
               /\ notif.store[j].notified \/ IsPending(notif.store[j], now)

\* C35: a GET /api/timetable answered after a successful refresh, with no
\* other refresh since, carries the same data list as that refresh's 200
\* response, and in both responses classCount is the length of data.
GetMatchesRefresh_C35 ==
    (/\ getResp.status = 200
     /\ last.resp.status = 200
     /\ ActiveSet = {})
      => /\ getResp.data = last.resp.data
         /\ getResp.classCount = Len(Get(getResp.data))
         /\ last.resp.classCount = Len(Get(last.resp.data))

\* A read after a refresh of two classes whose wire form differs from the
\* stored form.
ReadAfterRefresh_C35 ==
    /\ getResp.status = 200
    /\ last.resp.status = 200
    /\ ActiveSet = {}
    /\ getResp.classCount = 2
    /\ IsSome(cache)
    /\ Get(getResp.data) # Get(cache).data
    /\ getResp.cached
    /\ ~last.resp.cached

\* C36: from the moment toggleNotifications has switched notifications off
\* until they are switched on again no class notification is shown, neither
\* by a check that was already running nor by one started afterwards.
SilentWhileSwitchedOff_C36 ==
    [][\A k \in Checks : Delivers(k) => notif.enabled]_vars

\* C37: after initializeApp has started, the loading screen is eventually
\* hidden on every path, also while the permission prompt stays unanswered.
LoadingScreenHidden_C37 == <>(~app.loading)

====
